---- MODULE Spec2Model ----
(***************************************************************************)
(* Model of the repository-scan pipeline of brigade                        *)
(* (analyzers/repo_analyzer.py, class RepositoryAnalyzer): discovery,      *)
(* chunk building, bounded-parallel chunk analysis and synthesis.          *)
(***************************************************************************)
EXTENDS Integers, Sequences, FiniteSets, TLC

(***************************************************************************)
(* Bounds of the model.                                                    *)
(***************************************************************************)
\* files a chunk-builder run may be given
MaxFiles == 3
\* largest st_size a file may report
MaxSize == 3
\* largest byte budget (max_chunk_size) tried
MaxBudget == 2
\* largest file-count budget (max_files_per_chunk) tried
MaxFileBudget == 2

\* the value standing for "stat() raised OSError"
OSError == -1

VARIABLES
    pc,                   \* position of analyze_repository (the calling thread)
    repo,                 \* what is at repo_path: the root and the files below it
    max_chunk_size,       \* self.max_chunk_size
    max_files_per_chunk,  \* self.max_files_per_chunk
    file_inventory,       \* category -> list of files, the result of _discover_files
    st_size,              \* file -> size seen by Path(file).stat() in the chunker, or OSError
    chunks,               \* the list _create_chunks returned (sorted in place later)
    repo_summary,         \* RepoSummary.total_files from _create_repo_summary
    submitted,            \* how many chunks the submit loop has handed to the executor
    work_queue,           \* the executor's FIFO of submitted chunks no worker has taken
    future,               \* chunk index -> the Future of its _analyze_chunk call
    worker,               \* worker thread -> the chunk it runs and its loop state
    yielded,              \* futures as_completed has already yielded
    results,              \* the list `results` of _analyze_chunks_parallel
    calls,                \* history: chunk index -> the analyze_file calls made for it
    submit_log,           \* history: the chunks in the order executor.submit took them
    raised,               \* whether an exception reached analyze_repository's caller
    final_analysis,       \* what analyze_repository returned
    store,                \* pending_approvals.json: whether it is there and what it holds
    clock,                \* datetime.now(), in seconds
    prompt,               \* the request_pr_approval call: its loop, its answers, its result
    last_call             \* history: the last ApprovalManager call, its result and its writes

config == <<max_chunk_size, max_files_per_chunk>>
builder == <<file_inventory, st_size, chunks, repo_summary>>
executor == <<submitted, work_queue, future, worker, yielded, results, calls, submit_log>>
manager == <<store, clock, prompt, last_call>>
pipeline == <<pc, repo, config, builder, executor, raised, final_analysis>>
vars == <<pipeline, manager>>

Files == 1..MaxFiles

\* _create_chunks: priority_order, ranks are 1-based positions (enumerate(.., 1))
priority_order == <<"core", "tests", "config", "docs", "build", "other">>

Categories == {priority_order[i] : i \in 1..Len(priority_order)}

\* the dataclass RepoChunk
RepoChunk(files, size_bytes, category, priority) ==
    [files |-> files, size_bytes |-> size_bytes,
     category |-> category, priority |-> priority]

(***************************************************************************)
(* _split_files_into_chunks: the loop over the category's files, with the  *)
(* locals chunks, current_chunk and current_size as accumulators.          *)
(* `size` maps a file to what stat() gives for it.                         *)
(***************************************************************************)
\* a variant that forgets the size of the file being added
ExceedsLimitsBeforeAdding(current_size, file_size, count, B, F) ==
    current_size > B \/ count >= F

\* a variant that closes the current chunk on the file count alone
ExceedsLimitsCountOnly(current_size, file_size, count, B, F) ==
    count >= F

\* a variant that closes the current chunk when the file would fill the byte
\* budget exactly
ExceedsLimitsAtBudget(current_size, file_size, count, B, F) ==
    current_size + file_size >= B \/ count >= F

\* the test that closes the current chunk
ExceedsLimits(current_size, file_size, count, B, F) ==
    current_size + file_size > B \/ count >= F

\* a variant that goes on counting bytes from the chunk it closed
RECURSIVE SplitLoopKeepsSize(_, _, _, _, _, _, _, _, _, _)
SplitLoopKeepsSize(files, i, category, priority, B, F, size, acc, current_chunk, current_size) ==
    IF i > Len(files)
    THEN IF current_chunk # <<>>
         THEN Append(acc, RepoChunk(current_chunk, current_size, category, priority))
         ELSE acc
    ELSE LET file_path == files[i]
             file_size == size[file_path]
         IN  IF file_size = OSError
             THEN SplitLoopKeepsSize(files, i + 1, category, priority, B, F, size,
                                     acc, current_chunk, current_size)
             ELSE IF ExceedsLimits(current_size, file_size, Len(current_chunk), B, F)
                  THEN SplitLoopKeepsSize(files, i + 1, category, priority, B, F, size,
                                          IF current_chunk # <<>>
                                          THEN Append(acc, RepoChunk(current_chunk,
                                                                     current_size,
                                                                     category, priority))
                                          ELSE acc,
                                          <<file_path>>, current_size + file_size)
                  ELSE SplitLoopKeepsSize(files, i + 1, category, priority, B, F, size,
                                          acc, Append(current_chunk, file_path),
                                          current_size + file_size)

RECURSIVE SplitLoop(_, _, _, _, _, _, _, _, _, _)
SplitLoop(files, i, category, priority, B, F, size, acc, current_chunk, current_size) ==
    IF i > Len(files)
    THEN IF current_chunk # <<>>
         THEN Append(acc, RepoChunk(current_chunk, current_size, category, priority))
         ELSE acc
    ELSE LET file_path == files[i]
             file_size == size[file_path]
         IN  IF file_size = OSError
             THEN SplitLoop(files, i + 1, category, priority, B, F, size,
                            acc, current_chunk, current_size)
             ELSE IF ExceedsLimits(current_size, file_size, Len(current_chunk), B, F)
                  THEN SplitLoop(files, i + 1, category, priority, B, F, size,
                                 IF current_chunk # <<>>
                                 THEN Append(acc, RepoChunk(current_chunk, current_size,
                                                            category, priority))
                                 ELSE acc,
                                 <<file_path>>, file_size)
                  ELSE SplitLoop(files, i + 1, category, priority, B, F, size,
                                 acc, Append(current_chunk, file_path),
                                 current_size + file_size)

split_files_into_chunks(files, category, priority, B, F, size) ==
    SplitLoop(files, 1, category, priority, B, F, size, <<>>, <<>>, 0)

(***************************************************************************)
(* _create_chunks: the categories in priority order, empty ones skipped.   *)
(***************************************************************************)
\* a variant that ranks a category among the non-empty ones only
RECURSIVE CreateLoopNonEmptyRank(_, _, _, _, _, _)
CreateLoopNonEmptyRank(inventory, priority, B, F, size, acc) ==
    IF priority > Len(priority_order)
    THEN acc
    ELSE LET category == priority_order[priority]
             files == inventory[category]
             rank == Cardinality({j \in 1..priority :
                                     inventory[priority_order[j]] # <<>>})
         IN  IF files = <<>>
             THEN CreateLoopNonEmptyRank(inventory, priority + 1, B, F, size, acc)
             ELSE CreateLoopNonEmptyRank(inventory, priority + 1, B, F, size,
                                         acc \o split_files_into_chunks(
                                                    files, category, rank, B, F, size))

RECURSIVE CreateLoop(_, _, _, _, _, _)
CreateLoop(inventory, priority, B, F, size, acc) ==
    IF priority > Len(priority_order)
    THEN acc
    ELSE LET category == priority_order[priority]
             files == inventory[category]
         IN  IF files = <<>>
             THEN CreateLoop(inventory, priority + 1, B, F, size, acc)
             ELSE CreateLoop(inventory, priority + 1, B, F, size,
                             acc \o split_files_into_chunks(files, category,
                                                            priority, B, F, size))

create_chunks(inventory, B, F, size) == CreateLoop(inventory, 1, B, F, size, <<>>)

(***************************************************************************)
(* Inputs.  Files are opaque labels, so a discovered inventory is given by *)
(* how many files fall in each category: labels are handed out category by *)
(* category, and each category's list is in label order.                   *)
(***************************************************************************)
RankMaps(n) ==
    {r \in [1..n -> 1..Len(priority_order)] :
        \A i \in 1..n : \A j \in 1..n : i <= j => r[i] <= r[j]}

RECURSIVE FilesOfRank(_, _, _, _)
FilesOfRank(r, n, k, i) ==
    IF i > n THEN <<>>
    ELSE (IF r[i] = k THEN <<i>> ELSE <<>>) \o FilesOfRank(r, n, k, i + 1)

InventoryOf(r, n) ==
    [c \in Categories |->
        LET k == CHOOSE j \in 1..Len(priority_order) : priority_order[j] = c
        IN  FilesOfRank(r, n, k, 1)]

EmptyInventory == [c \in Categories |-> <<>>]

InventoryFiles(inventory) ==
    UNION {{inventory[c][i] : i \in 1..Len(inventory[c])} : c \in Categories}

(***************************************************************************)
(* _create_repo_summary: total_files = sum of the category list lengths.   *)
(***************************************************************************)
RECURSIVE TotalFiles(_, _)
TotalFiles(inventory, k) ==
    IF k > Len(priority_order) THEN 0
    ELSE Len(inventory[priority_order[k]]) + TotalFiles(inventory, k + 1)

create_repo_summary(inventory) == [total_files |-> TotalFiles(inventory, 1)]

NoSummary == [total_files |-> -1]

(***************************************************************************)
(* Paths.  A string is the sequence of its characters; a path is the       *)
(* sequence of its components, the last of which is the file's name.       *)
(***************************************************************************)
UpperCase ==
    <<"A", "B", "C", "D", "E", "F", "G", "H", "I", "J", "K", "L", "M",
      "N", "O", "P", "Q", "R", "S", "T", "U", "V", "W", "X", "Y", "Z">>

LowerCase ==
    <<"a", "b", "c", "d", "e", "f", "g", "h", "i", "j", "k", "l", "m",
      "n", "o", "p", "q", "r", "s", "t", "u", "v", "w", "x", "y", "z">>

LowerChar(ch) ==
    IF \E i \in 1..Len(UpperCase) : UpperCase[i] = ch
    THEN LowerCase[CHOOSE i \in 1..Len(UpperCase) : UpperCase[i] = ch]
    ELSE ch

\* str.lower()
lower(s) == [i \in 1..Len(s) |-> LowerChar(s[i])]

\* pattern in s
Contains(pattern, s) ==
    \E i \in 0..(Len(s) - Len(pattern)) : SubSeq(s, i + 1, i + Len(pattern)) = pattern

\* s.startswith(prefix)
startswith(s, prefix) ==
    Len(prefix) <= Len(s) /\ SubSeq(s, 1, Len(prefix)) = prefix

\* str(path): the components joined by the separator
RECURSIVE PathStr(_)
PathStr(parts) ==
    IF Len(parts) = 1 THEN parts[1]
    ELSE parts[1] \o <<"/">> \o PathStr(Tail(parts))

\* Path.name
PathName(parts) == parts[Len(parts)]

\* Path.suffix: from the last dot of the name on, unless that dot starts or
\* ends the name
PathSuffix(parts) ==
    LET name == PathName(parts)
        dots == {i \in 1..Len(name) : name[i] = "."}
    IN  IF dots = {} THEN <<>>
        ELSE LET last == CHOOSE i \in dots : \A j \in dots : j <= i
             IN  IF last > 1 /\ last < Len(name)
                 THEN SubSeq(name, last, Len(name))
                 ELSE <<>>

(***************************************************************************)
(* _categorize_file: the first rule that matches decides.                  *)
(***************************************************************************)
config_patterns ==
    <<<<"c", "o", "n", "f", "i", "g">>,
      <<"s", "e", "t", "t", "i", "n", "g", "s">>,
      <<".", "e", "n", "v">>,
      <<"r", "e", "q", "u", "i", "r", "e", "m", "e", "n", "t", "s">>,
      <<"p", "a", "c", "k", "a", "g", "e", ".", "j", "s", "o", "n">>,
      <<"D", "o", "c", "k", "e", "r", "f", "i", "l", "e">>>>

doc_patterns ==
    <<<<"r", "e", "a", "d", "m", "e">>,
      <<"d", "o", "c">>,
      <<".", "m", "d">>,
      <<".", "r", "s", "t">>,
      <<".", "t", "x", "t">>>>

build_patterns ==
    <<<<"m", "a", "k", "e", "f", "i", "l", "e">>,
      <<"s", "e", "t", "u", "p", ".", "p", "y">>,
      <<".", "y", "m", "l">>,
      <<".", "y", "a", "m", "l">>,
      <<"b", "u", "i", "l", "d">>,
      <<"d", "e", "p", "l", "o", "y">>>>

code_extensions ==
    {<<".", "p", "y">>,
     <<".", "j", "s">>,
     <<".", "t", "s">>,
     <<".", "j", "a", "v", "a">>,
     <<".", "g", "o">>,
     <<".", "r", "s">>,
     <<".", "c", "p", "p">>,
     <<".", "c">>,
     <<".", "h">>}

\* any(pattern in path_str for pattern in patterns)
AnyPatternIn(patterns, path_str) ==
    \E k \in 1..Len(patterns) : Contains(patterns[k], path_str)

categorize_file(file_path) ==
    LET path_str == lower(PathStr(file_path))
    IN  IF \/ Contains(<<"t", "e", "s", "t">>, path_str)
           \/ startswith(PathName(file_path), <<"t", "e", "s", "t", "_">>)
        THEN "tests"
        ELSE IF AnyPatternIn(config_patterns, path_str) THEN "config"
        ELSE IF AnyPatternIn(doc_patterns, path_str) THEN "docs"
        ELSE IF AnyPatternIn(build_patterns, path_str) THEN "build"
        ELSE IF lower(PathSuffix(file_path)) \in code_extensions THEN "core"
        ELSE "other"

(***************************************************************************)
(* _should_skip_file.  A file of the tree is its path and what stat()      *)
(* answers for it: a size, or OSError.                                     *)
(***************************************************************************)
binary_extensions ==
    {<<".", "p", "y", "c">>,
     <<".", "s", "o">>,
     <<".", "d", "l", "l">>,
     <<".", "e", "x", "e">>,
     <<".", "b", "i", "n">>,
     <<".", "j", "p", "g">>,
     <<".", "p", "n", "g">>,
     <<".", "g", "i", "f">>,
     <<".", "p", "d", "f">>}

should_skip_file(file) ==
    \/ lower(PathSuffix(file.path)) \in binary_extensions
    \/ file.stat = OSError
    \/ file.stat > 1024 * 1024

(***************************************************************************)
(* _discover_files: os.walk from the root, ignored directories pruned;     *)
(* errors of listing a directory are ignored by os.walk (onerror is not    *)
(* given), so a root that is no readable directory yields no file.         *)
(***************************************************************************)
ignore_patterns ==
    {<<".", "g", "i", "t">>,
     <<"_", "_", "p", "y", "c", "a", "c", "h", "e", "_", "_">>,
     <<"n", "o", "d", "e", "_", "m", "o", "d", "u", "l", "e", "s">>,
     <<".", "p", "y", "t", "e", "s", "t", "_", "c", "a", "c", "h", "e">>,
     <<"v", "e", "n", "v">>,
     <<"e", "n", "v">>,
     <<".", "v", "e", "n", "v">>,
     <<"d", "i", "s", "t">>,
     <<"b", "u", "i", "l", "d">>,
     <<".", "c", "a", "c", "h", "e">>}

\* the files os.walk yields: those below no ignored directory
os_walk(tree) ==
    IF tree.root # "directory" THEN <<>>
    ELSE SelectSeq(tree.files,
                   LAMBDA file : \A i \in 1..(Len(file.path) - 1) :
                                     file.path[i] \notin ignore_patterns)

\* a variant that files a skipped file as well
RECURSIVE DiscoverLoopNoContinue(_, _, _)
DiscoverLoopNoContinue(files, i, categories) ==
    IF i > Len(files) THEN categories
    ELSE LET relative_path == files[i].path
             category == categorize_file(relative_path)
         IN  DiscoverLoopNoContinue(files, i + 1,
                                    [categories EXCEPT
                                        ![category] = Append(@, PathStr(relative_path))])

RECURSIVE DiscoverLoop(_, _, _)
DiscoverLoop(files, i, categories) ==
    IF i > Len(files) THEN categories
    ELSE IF should_skip_file(files[i])
         THEN DiscoverLoop(files, i + 1, categories)
         ELSE LET relative_path == files[i].path
                  category == categorize_file(relative_path)
              IN  DiscoverLoop(files, i + 1,
                               [categories EXCEPT
                                   ![category] = Append(@, PathStr(relative_path))])

discover_files(tree) == DiscoverLoop(os_walk(tree), 1, EmptyInventory)

(***************************************************************************)
(* The file analyzer (UnifiedAnalyzer.analyze_file) is an opaque           *)
(* collaborator: a call returns a result or raises.  A result's            *)
(* quality_score is a number, or NotANumber for a result the summary's     *)
(* sum() cannot add.  An issue is a mapping that may lack "type".          *)
(***************************************************************************)
NotANumber == -1

IssueSecurity == [type |-> "security"]
IssueStyle == [type |-> "style"]
IssueUntyped == [severity |-> "low"]
IssueComplexity == [type |-> "complexity"]

AnalyzerResults ==
    { [quality_score |-> 10, issues |-> <<>>, language |-> "python"],
      [quality_score |-> 4, issues |-> <<IssueSecurity>>, language |-> "python"],
      [quality_score |-> 7, issues |-> <<IssueStyle, IssueUntyped, IssueSecurity>>,
       language |-> ""] }

MalformedResult == [quality_score |-> NotANumber, issues |-> <<>>, language |-> ""]

\* a call's outcome: the result returned, or the class of the exception raised
Returns(result) == [raises |-> "none", result |-> result]
Raises(class) == [raises |-> class, result |-> MalformedResult]

\* the analyzer fails with an AnalysisError (core.exceptions)
AnalyzerOutcomes ==
    {Returns(r) : r \in AnalyzerResults \cup {MalformedResult}}
        \cup {Raises("AnalysisError")}

\* the classes derived from Exception that occur: the analyzer's failure and
\* the TypeError of sum() over a score that is no number
ExceptionClasses == {"AnalysisError", "TypeError"}

(***************************************************************************)
(* Python dicts: functions whose domain is the set of keys present.        *)
(***************************************************************************)
EmptyDict == [k \in {} |-> 0]

\* d[k] = d.get(k, 0) + n
DictAdd(d, k, n) ==
    [x \in DOMAIN d \cup {k} |->
        IF x = k THEN (IF k \in DOMAIN d THEN d[k] ELSE 0) + n ELSE d[x]]

\* exact quotients stand for Python's float division
Rat(n, d) == [num |-> n, den |-> d]
RatAdd(a, b) == Rat(a.num * b.den + b.num * a.den, a.den * b.den)
RatEq(a, b) == a.num * b.den = b.num * a.den
RatLess(a, b) == a.num * b.den < b.num * a.den

(***************************************************************************)
(* Python floats (IEEE 754 binary64, round to nearest, ties to even), for  *)
(* the positive values the quality scores give.  A float is its mantissa,  *)
(* a sequence of MantissaBits bits that starts with 1, and the exponent e  *)
(* of the last bit: its value is mantissa * 2^e.  The bits are kept one by *)
(* one, so every rounding is the one the hardware makes.                   *)
(***************************************************************************)
\* sys.float_info.mant_dig
MantissaBits == 53

\* quotient bits worked out beyond the mantissa before rounding; enough for
\* divisors below 2^(GuardBits - 1)
GuardBits == 8

Zeros(n) == [i \in 1..n |-> 0]

\* 0.0
FloatZero == [m |-> Zeros(MantissaBits), e |-> 0]

\* the carry out of the positions i.. of the sum of two bit sequences of one
\* length: some position makes a carry and all before it pass it on
Carry(x, y, i) ==
    IF \E j \in i..Len(x) :
           /\ x[j] + y[j] = 2
           /\ \A k \in i..(j - 1) : x[k] + y[k] = 1
    THEN 1 ELSE 0

\* the sum of two bit sequences of one length, one bit longer
SumBits(x, y) ==
    <<Carry(x, y, 1)>> \o [i \in 1..Len(x) |-> (x[i] + y[i] + Carry(x, y, i + 1)) % 2]

\* the bits from the first 1 on
Significant(bits) ==
    IF \A i \in 1..Len(bits) : bits[i] = 0 THEN <<>>
    ELSE LET first == CHOOSE i \in 1..Len(bits) :
                          bits[i] = 1 /\ \A j \in 1..(i - 1) : bits[j] = 0
         IN  SubSeq(bits, first, Len(bits))

\* rounding: bits starts with 1 and is worth bits * 2^e, plus something
\* below its last bit when sticky; the nearest float, ties to even
RoundToFloat(bits, sticky, e) ==
    IF Len(bits) <= MantissaBits
    THEN [m |-> bits \o Zeros(MantissaBits - Len(bits)),
          e |-> e - (MantissaBits - Len(bits))]
    ELSE LET kept == SubSeq(bits, 1, MantissaBits)
             guard == bits[MantissaBits + 1]
             rest == sticky \/ \E i \in (MantissaBits + 2)..Len(bits) : bits[i] = 1
             up == guard = 1 /\ (rest \/ kept[MantissaBits] = 1)
             next_up == SumBits(kept, Zeros(MantissaBits - 1) \o <<1>>)
             exp == e + (Len(bits) - MantissaBits)
         IN  IF ~up THEN [m |-> kept, e |-> exp]
             ELSE IF next_up[1] = 1
                  THEN [m |-> SubSeq(next_up, 1, MantissaBits), e |-> exp + 1]
                  ELSE [m |-> Tail(next_up), e |-> exp]

\* n / d brought to 1 <= n / d < 2 by powers of two, E counting them
RECURSIVE Scale(_, _, _)
Scale(n, d, E) ==
    IF n < d THEN Scale(2 * n, d, E - 1)
    ELSE IF n >= 2 * d THEN Scale(n, 2 * d, E + 1)
    ELSE [n |-> n, d |-> d, E |-> E]

\* 2^k modulo d, by repeated squaring
RECURSIVE PowerOfTwoMod(_, _)
PowerOfTwoMod(k, d) ==
    IF k = 0 THEN 1 % d
    ELSE LET half == PowerOfTwoMod(k \div 2, d)
         IN  (half * half * (IF k % 2 = 1 THEN 2 ELSE 1)) % d

\* long division: the next k bits of r / d, where r < d, and what remains;
\* before bit j the remainder is r * 2^(j - 1) modulo d
QuotientBits(r, d, k) ==
    [bits |-> [j \in 1..k |-> (2 * ((r * PowerOfTwoMod(j - 1, d)) % d)) \div d],
     r |-> (r * PowerOfTwoMod(k, d)) % d]

\* int / int, true division of a non-negative by a positive integer
FloatOfQuotient(n, d) ==
    IF n = 0 THEN FloatZero
    ELSE LET s == Scale(n, d, 0)
             q == QuotientBits(s.n - s.d, s.d, MantissaBits)
         IN  RoundToFloat(<<1>> \o q.bits, q.r # 0, s.E - MantissaBits)

\* the number the bits lo..hi spell, modulo n
RECURSIVE BitsMod(_, _, _, _)
BitsMod(bits, lo, hi, n) ==
    IF lo > hi THEN 0
    ELSE IF lo = hi THEN bits[lo] % n
    ELSE LET mid == (lo + hi) \div 2
         IN  (BitsMod(bits, lo, mid, n) * PowerOfTwoMod(hi - mid, n)
                  + BitsMod(bits, mid + 1, hi, n)) % n

\* long division of the number the bits spell by n: before bit i the
\* remainder is what the bits before it spell, modulo n
LongDivision(bits, n) ==
    [bits |-> [i \in 1..Len(bits) |->
                  (2 * BitsMod(bits, 1, i - 1, n) + bits[i]) \div n],
     r |-> BitsMod(bits, 1, Len(bits), n)]

\* float / int, for a positive int
FloatDivInt(x, n) ==
    IF x = FloatZero THEN FloatZero
    ELSE LET q == LongDivision(x.m \o Zeros(GuardBits), n)
         IN  RoundToFloat(Significant(q.bits), q.r # 0, x.e - GuardBits)

\* float + float
FloatAdd(a, b) ==
    IF a = FloatZero THEN b
    ELSE IF b = FloatZero THEN a
    ELSE LET hi == IF a.e >= b.e THEN a ELSE b
             lo == IF a.e >= b.e THEN b ELSE a
             shift == hi.e - lo.e
         IN  RoundToFloat(Significant(SumBits(hi.m \o Zeros(shift),
                                              Zeros(shift) \o lo.m)),
                          FALSE, lo.e)

\* float < float
FloatLess(a, b) ==
    IF b = FloatZero THEN FALSE
    ELSE IF a = FloatZero THEN TRUE
    ELSE \/ a.e < b.e
         \/ /\ a.e = b.e
            /\ \E i \in 1..MantissaBits :
                  /\ a.m[i] < b.m[i]
                  /\ \A j \in 1..(i - 1) : a.m[j] = b.m[j]

(***************************************************************************)
(* _summarize_chunk                                                        *)
(***************************************************************************)
\* issue.get("type", "unknown")
IssueType(issue) == IF "type" \in DOMAIN issue THEN issue.type ELSE "unknown"

RECURSIVE CountIssues(_, _, _)
CountIssues(issues, j, issue_counts) ==
    IF j > Len(issues) THEN issue_counts
    ELSE CountIssues(issues, j + 1, DictAdd(issue_counts, IssueType(issues[j]), 1))

RECURSIVE CountFileIssues(_, _, _)
CountFileIssues(file_analyses, i, issue_counts) ==
    IF i > Len(file_analyses) THEN issue_counts
    ELSE CountFileIssues(file_analyses, i + 1,
                         CountIssues(file_analyses[i].issues, 1, issue_counts))

RECURSIVE SumScores(_, _)
SumScores(file_analyses, i) ==
    IF i > Len(file_analyses) THEN 0
    ELSE file_analyses[i].quality_score + SumScores(file_analyses, i + 1)

\* sum() raises TypeError on a score that is no number
SummarizeRaises(file_analyses) ==
    \E i \in 1..Len(file_analyses) : file_analyses[i].quality_score = NotANumber

\* a variant that summarizes no files as a summary of zeros
summarize_chunk_zeros(file_analyses) ==
    [file_count |-> Len(file_analyses),
     average_quality |-> IF file_analyses = <<>> THEN Rat(0, 1)
                         ELSE Rat(SumScores(file_analyses, 1), Len(file_analyses)),
     issue_summary |-> CountFileIssues(file_analyses, 1, EmptyDict),
     languages |-> {file_analyses[i].language : i \in 1..Len(file_analyses)}]

summarize_chunk(file_analyses) ==
    IF file_analyses = <<>>
    THEN EmptyDict
    ELSE [file_count |-> Len(file_analyses),
          average_quality |-> Rat(SumScores(file_analyses, 1), Len(file_analyses)),
          issue_summary |-> CountFileIssues(file_analyses, 1, EmptyDict),
          languages |-> {file_analyses[i].language : i \in 1..Len(file_analyses)}]

(***************************************************************************)
(* _analyze_chunk, one loop iteration and the end of the call.             *)
(***************************************************************************)
FileEntry(file_path, file_result) ==
    [path |-> file_path, quality_score |-> file_result.quality_score,
     issues |-> file_result.issues, language |-> file_result.language]

\* a variant whose handler names a narrower class
FileHandlerCatchesValueError(class) == class \in {"ValueError"}

\* `except Exception as e` around one file's analysis
FileHandlerCatches(class) == class \in ExceptionClasses

\* the body of `for file_path in chunk.files`: the entry is appended only
\* when analyze_file returned
AfterFile(files_so_far, file_path, outcome) ==
    IF outcome.raises # "none"
    THEN files_so_far
    ELSE Append(files_so_far, FileEntry(file_path, outcome.result))

ChunkAnalysis(chunk, file_analyses) ==
    [category |-> chunk.category, file_count |-> Len(chunk.files),
     size_bytes |-> chunk.size_bytes, files |-> file_analyses,
     summary |-> summarize_chunk(file_analyses),
     patterns |-> <<>>, issues |-> <<>>]

(***************************************************************************)
(* _analyze_chunks_parallel                                                *)
(***************************************************************************)
\* a variant with one more worker thread
max_workers_plus_one == 3 + 1

\* a variant with a single pool thread
max_workers_one == 3 - 2

\* ThreadPoolExecutor(max_workers=3)
max_workers == 3

Workers == 1..max_workers

Idle == [chunk |-> 0, i |-> 0, files |-> <<>>]

\* a variant that sorts by descending rank
SortKeyDescending(chunk) == 0 - chunk.priority

\* chunks.sort(key=lambda x: x.priority): a stable sort
SortKey(chunk) == chunk.priority

RECURSIVE InsertByKey(_, _)
InsertByKey(sorted, chunk) ==
    IF sorted = <<>> THEN <<chunk>>
    ELSE IF SortKey(sorted[Len(sorted)]) <= SortKey(chunk)
         THEN Append(sorted, chunk)
         ELSE Append(InsertByKey(SubSeq(sorted, 1, Len(sorted) - 1), chunk),
                     sorted[Len(sorted)])

RECURSIVE SortChunksFrom(_, _, _)
SortChunksFrom(list, i, sorted) ==
    IF i > Len(list) THEN sorted
    ELSE SortChunksFrom(list, i + 1, InsertByKey(sorted, list[i]))

sort_by_priority(list) == SortChunksFrom(list, 1, <<>>)

NoResult == [category |-> "none"]

Pending == [state |-> "PENDING", exception |-> "none", result |-> NoResult]
Running == [state |-> "RUNNING", exception |-> "none", result |-> NoResult]
\* _analyze_chunk raised: the future holds the exception
Failed(class) == [state |-> "FINISHED", exception |-> class, result |-> NoResult]
\* _analyze_chunk got through its loop: it returns chunk_analysis, unless
\* _summarize_chunk raises
Finished(chunk, file_analyses) ==
    IF SummarizeRaises(file_analyses)
    THEN Failed("TypeError")
    ELSE [state |-> "FINISHED", exception |-> "none",
          result |-> ChunkAnalysis(chunk, file_analyses)]

\* a variant whose handler names only the analyzer's error class
PoolHandlerCatchesAnalysisError(class) == class \in {"AnalysisError"}

\* `except Exception as e` around future.result()
PoolHandlerCatches(class) == class \in ExceptionClasses

\* a variant that appends outside the try block
CollectResultAlways(list, chunk, fut) ==
    Append(list, [chunk_info |-> chunk, analysis |-> fut.result])

\* try: results.append({"chunk_info": chunk, "analysis": future.result()})
CollectResult(list, chunk, fut) ==
    IF fut.exception # "none"
    THEN list
    ELSE Append(list, [chunk_info |-> chunk, analysis |-> fut.result])

NoAnalysis == [returned |-> FALSE]

(***************************************************************************)
(* analyze_repository, step by step.                                       *)
(***************************************************************************)
\* step 1: _discover_files, giving up to maxn files to categories of the ranks
DiscoverFiles(maxn, ranks) ==
    /\ pc = "discover"
    /\ \E n \in 0..maxn : \E r \in RankMaps(n) :
          /\ \A i \in 1..n : r[i] \in ranks
          /\ file_inventory' = InventoryOf(r, n)
    /\ pc' = "summary"
    /\ UNCHANGED <<manager, repo, config, st_size, chunks, repo_summary, executor,
                   raised, final_analysis>>

\* step 1 on a tree: _discover_files walks what is at repo_path
DiscoverRepo ==
    /\ pc = "discover"
    /\ file_inventory' = discover_files(repo)
    /\ pc' = "summary"
    /\ UNCHANGED <<manager, repo, config, st_size, chunks, repo_summary, executor,
                   raised, final_analysis>>

\* step 1, second call: _create_repo_summary
CreateRepoSummary ==
    /\ pc = "summary"
    /\ repo_summary' = create_repo_summary(file_inventory)
    /\ pc' = "chunk"
    /\ UNCHANGED <<manager, repo, config, file_inventory, st_size, chunks, executor,
                   raised, final_analysis>>

\* step 2: _create_chunks; stat() of each file answers a size or raises OSError
CreateChunks(sizes) ==
    /\ pc = "chunk"
    /\ \E size \in [InventoryFiles(file_inventory) -> sizes] :
          /\ st_size' = size
          /\ chunks' = create_chunks(file_inventory, max_chunk_size,
                                     max_files_per_chunk, size)
    /\ pc' = "sort"
    /\ UNCHANGED <<manager, repo, config, file_inventory, repo_summary, executor,
                   raised, final_analysis>>

\* step 3, _analyze_chunks_parallel: the in-place sort
SortChunks ==
    /\ pc = "sort"
    /\ chunks' = sort_by_priority(chunks)
    /\ pc' = "submit"
    /\ UNCHANGED <<manager, repo, config, file_inventory, st_size, repo_summary, executor,
                   raised, final_analysis>>

\* one iteration of `for chunk in chunks: executor.submit(...)`
Submit ==
    /\ pc = "submit"
    /\ submitted < Len(chunks)
    /\ submitted' = submitted + 1
    /\ work_queue' = Append(work_queue, submitted + 1)
    /\ future' = Append(future, Pending)
    /\ calls' = Append(calls, <<>>)
    /\ submit_log' = Append(submit_log, chunks[submitted + 1])
    /\ UNCHANGED <<pc, manager, repo, config, builder, worker, yielded, results,
                   raised, final_analysis>>

\* the submit loop ends; as_completed starts
SubmitDone ==
    /\ pc = "submit"
    /\ submitted = Len(chunks)
    /\ pc' = "collect"
    /\ UNCHANGED <<manager, repo, config, builder, executor, raised, final_analysis>>

\* a worker thread with nothing to do takes the oldest queued chunk; the
\* threads are interchangeable, so of the idle ones the first takes it
CanTake(w) ==
    /\ worker[w].chunk = 0
    /\ \A v \in Workers : v < w => worker[v].chunk # 0

\* a variant that hands out the newest work item
queue_get_newest(queue) == queue[Len(queue)]

\* the executor's work queue is first in, first out
queue_get(queue) == Head(queue)

TakeChunk(w) ==
    /\ CanTake(w)
    /\ work_queue # <<>>
    /\ LET c == queue_get(work_queue)
       IN  /\ worker' = [worker EXCEPT ![w] = [chunk |-> c, i |-> 1, files |-> <<>>]]
           /\ future' = [future EXCEPT ![c] = Running]
           /\ work_queue' = SelectSeq(work_queue, LAMBDA queued : queued # c)
    /\ UNCHANGED <<pc, manager, repo, config, builder, submitted, yielded, results, calls,
                   submit_log, raised, final_analysis>>

\* _analyze_chunk: one file of the worker's chunk.  An exception the
\* handler does not catch ends the call and becomes the future's exception.
\* a variant that calls analyze_file again on the file whose call raised
NextFileRetry(i, outcome) == IF outcome.raises # "none" THEN i ELSE i + 1

\* `for file_path in chunk.files`: the loop goes on to the next file after
\* the call returned and after the handler caught its exception
NextFile(i, outcome) == i + 1

\* the call of analyze_file on a file that never returns
NeverReturns == [raises |-> "never", result |-> MalformedResult]

\* the worker is inside a call of analyze_file that never returns
Hung(w) == worker[w].chunk # 0 /\ worker[w].i = 0

AnalyzeFile(w, outcomes) ==
    /\ worker[w].chunk # 0
    /\ ~Hung(w)
    /\ worker[w].i <= Len(chunks[worker[w].chunk].files)
    /\ LET c == worker[w].chunk
           file_path == chunks[c].files[worker[w].i]
       IN  \E outcome \in outcomes :
             /\ calls' = [calls EXCEPT ![c] = Append(@, [path |-> file_path,
                                                          outcome |-> outcome])]
             /\ IF outcome.raises # "none" /\ ~FileHandlerCatches(outcome.raises)
                THEN /\ future' = [future EXCEPT ![c] = Failed(outcome.raises)]
                     /\ worker' = [worker EXCEPT ![w] = Idle]
                ELSE /\ worker' = [worker EXCEPT
                           ![w].files = AfterFile(worker[w].files, file_path, outcome),
                           ![w].i = NextFile(worker[w].i, outcome)]
                     /\ UNCHANGED future
    /\ UNCHANGED <<pc, manager, repo, config, builder, submitted, work_queue, yielded,
                   results, submit_log, raised, final_analysis>>

\* _analyze_chunk: analyze_file is called and never returns; nothing bounds
\* the call, so the worker stays in it.  One call of a run hangs.
AnalyzeFileHangs(w) ==
    /\ worker[w].chunk # 0
    /\ worker[w].i <= Len(chunks[worker[w].chunk].files)
    /\ \A v \in Workers : ~Hung(v)
    /\ calls' = [calls EXCEPT ![worker[w].chunk] =
                     Append(@, [path |-> chunks[worker[w].chunk].files[worker[w].i],
                                outcome |-> NeverReturns])]
    /\ worker' = [worker EXCEPT ![w].i = 0]
    /\ UNCHANGED <<pc, manager, repo, config, builder, submitted, work_queue, future,
                   yielded, results, submit_log, raised, final_analysis>>

\* _analyze_chunk: the summary and the return; the future is done
FinishChunk(w) ==
    /\ worker[w].chunk # 0
    /\ worker[w].i > Len(chunks[worker[w].chunk].files)
    /\ future' = [future EXCEPT ![worker[w].chunk] =
                      Finished(chunks[worker[w].chunk], worker[w].files)]
    /\ worker' = [worker EXCEPT ![w] = Idle]
    /\ UNCHANGED <<pc, manager, repo, config, builder, submitted, work_queue, yielded,
                   results, calls, submit_log, raised, final_analysis>>

\* a variant that leaves the loop without waiting for the futures
AllCollectedNoWait == TRUE

\* as_completed has yielded every future and the `with` block has joined
\* the workers
AllCollected == yielded = DOMAIN future

\* one iteration of `for future in as_completed(future_to_chunk)`; an
\* exception the handler does not catch leaves analyze_repository
Collect ==
    /\ pc = "collect"
    /\ \E c \in DOMAIN future \ yielded :
          /\ future[c].state = "FINISHED"
          /\ yielded' = yielded \cup {c}
          /\ results' = CollectResult(results, chunks[c], future[c])
          /\ IF future[c].exception # "none" /\ ~PoolHandlerCatches(future[c].exception)
             THEN pc' = "raised" /\ raised' = TRUE
             ELSE UNCHANGED <<pc, raised>>
    /\ UNCHANGED <<manager, repo, config, builder, submitted, work_queue, future, worker,
                   calls, submit_log, final_analysis>>

\* as_completed is exhausted, the `with` block ends, results are returned
CollectDone ==
    /\ pc = "collect"
    /\ AllCollected
    /\ pc' = "synthesize"
    /\ UNCHANGED <<manager, repo, config, builder, executor, raised, final_analysis>>

(***************************************************************************)
(* _synthesize_results and its helpers.                                    *)
(***************************************************************************)
\* a variant that stores the count instead of adding it
MergeCountOverwrite(all_issues, issue_type, count) ==
    [x \in DOMAIN all_issues \cup {issue_type} |->
        IF x = issue_type THEN count ELSE all_issues[x]]

\* all_issues[issue_type] = all_issues.get(issue_type, 0) + count
MergeCount(all_issues, issue_type, count) == DictAdd(all_issues, issue_type, count)

\* for issue_type, count in chunk_summary.get("issue_summary", {}).items()
RECURSIVE MergeItems(_, _, _)
MergeItems(all_issues, issue_summary, keys) ==
    IF keys = {} THEN all_issues
    ELSE LET issue_type == CHOOSE k \in keys : TRUE
         IN  MergeItems(MergeCount(all_issues, issue_type, issue_summary[issue_type]),
                        issue_summary, keys \ {issue_type})

\* chunk_summary.get(key, default)
DictGet(d, key, default) == IF key \in DOMAIN d THEN d[key] ELSE default

\* the loop `for chunk_result in chunk_results`, one accumulator each
RECURSIVE QualityScores(_, _)
QualityScores(chunk_results, i) ==
    IF i > Len(chunk_results) THEN <<>>
    ELSE LET chunk_summary == chunk_results[i].analysis.summary
         IN  (IF "average_quality" \in DOMAIN chunk_summary
              THEN <<chunk_summary.average_quality>> ELSE <<>>)
             \o QualityScores(chunk_results, i + 1)

RECURSIVE AllIssues(_, _, _)
AllIssues(chunk_results, i, all_issues) ==
    IF i > Len(chunk_results) THEN all_issues
    ELSE LET issue_summary ==
                 DictGet(chunk_results[i].analysis.summary, "issue_summary", EmptyDict)
         IN  AllIssues(chunk_results, i + 1,
                       MergeItems(all_issues, issue_summary, DOMAIN issue_summary))

RECURSIVE AllLanguages(_, _)
AllLanguages(chunk_results, i) ==
    IF i > Len(chunk_results) THEN {}
    ELSE DictGet(chunk_results[i].analysis.summary, "languages", {})
             \cup AllLanguages(chunk_results, i + 1)

\* sum(total_quality_scores)
RECURSIVE SumRat(_, _)
SumRat(scores, i) ==
    IF i > Len(scores) THEN Rat(0, 1)
    ELSE RatAdd(scores[i], SumRat(scores, i + 1))

RECURSIVE SumNum(_, _)
SumNum(scores, i) == IF i > Len(scores) THEN 0 ELSE scores[i].num + SumNum(scores, i + 1)

RECURSIVE SumDen(_, _)
SumDen(scores, i) == IF i > Len(scores) THEN 0 ELSE scores[i].den + SumDen(scores, i + 1)

\* a variant that weights each chunk's average by its file count
RepoQualityWeighted(total_quality_scores) ==
    IF total_quality_scores # <<>>
    THEN Rat(SumNum(total_quality_scores, 1), SumDen(total_quality_scores, 1))
    ELSE Rat(0, 1)

\* a variant that rates a repository with no scores as faultless
RepoQualityTenWhenEmpty(total_quality_scores) ==
    IF total_quality_scores # <<>>
    THEN LET total == SumRat(total_quality_scores, 1)
         IN  Rat(total.num, total.den * Len(total_quality_scores))
    ELSE Rat(10, 1)

\* sum(total_quality_scores) / len(total_quality_scores) if total_quality_scores else 0
RepoQuality(total_quality_scores) ==
    IF total_quality_scores # <<>>
    THEN LET total == SumRat(total_quality_scores, 1)
         IN  Rat(total.num, total.den * Len(total_quality_scores))
    ELSE Rat(0, 1)

\* the average_quality of a chunk summary as the interpreter holds it: the
\* float of the int sum of the scores over the file count
float_average(average_quality) ==
    FloatOfQuotient(average_quality.num, average_quality.den)

\* sum(total_quality_scores): left to right from the int 0, rounding each sum
RECURSIVE float_sum(_, _, _)
float_sum(total_quality_scores, i, total) ==
    IF i > Len(total_quality_scores) THEN total
    ELSE float_sum(total_quality_scores, i + 1,
                   FloatAdd(total, float_average(total_quality_scores[i])))

\* repo_quality as the interpreter computes it from the chunk results
float_repo_quality(chunk_results) ==
    LET total_quality_scores == QualityScores(chunk_results, 1)
    IN  IF total_quality_scores # <<>>
        THEN FloatDivInt(float_sum(total_quality_scores, 1, FloatZero),
                         Len(total_quality_scores))
        ELSE FloatZero

\* the messages that depend on repo_quality alone: the quality insight of
\* _generate_insights and the second rule of _generate_recommendations
float_quality_messages(repo_quality) ==
    (IF ~FloatLess(repo_quality, FloatOfQuotient(8, 1)) THEN <<"Excellent code quality">>
     ELSE IF ~FloatLess(repo_quality, FloatOfQuotient(6, 1)) THEN <<"Good code quality">>
     ELSE <<"Code quality needs attention">>)
    \o (IF FloatLess(repo_quality, FloatOfQuotient(6, 1))
        THEN <<"2. Implement code quality standards and linting">> ELSE <<>>)

CountCategory(chunk_results, category) ==
    Cardinality({i \in 1..Len(chunk_results) :
                    chunk_results[i].chunk_info.category = category})

\* _generate_insights; each message is named by its leading words
generate_insights(chunk_results, repo_quality, all_issues) ==
    LET core_chunks == CountCategory(chunk_results, "core")
        test_chunks == CountCategory(chunk_results, "tests")
    IN  (IF ~RatLess(repo_quality, Rat(8, 1)) THEN <<"Excellent code quality">>
         ELSE IF ~RatLess(repo_quality, Rat(6, 1)) THEN <<"Good code quality">>
         ELSE <<"Code quality needs attention">>)
        \o (IF "security" \in DOMAIN all_issues /\ all_issues["security"] > 5
            THEN <<"Security issues detected">> ELSE <<>>)
        \o (IF "performance" \in DOMAIN all_issues /\ all_issues["performance"] > 10
            THEN <<"Performance optimization opportunities">> ELSE <<>>)
        \o (IF test_chunks = 0
            THEN <<"No test files detected">>
            ELSE IF core_chunks > 0 /\ test_chunks > 0
                    /\ RatLess(Rat(test_chunks, core_chunks), Rat(3, 10))
                 THEN <<"Low test-to-code ratio">>
                 ELSE <<>>)

\* a variant whose formatting rule starts at 20 style issues
generate_recommendations_from_20(all_issues, repo_quality) ==
    (IF "security" \in DOMAIN all_issues
     THEN <<"1. Address security vulnerabilities immediately">> ELSE <<>>)
    \o (IF RatLess(repo_quality, Rat(6, 1))
        THEN <<"2. Implement code quality standards and linting">> ELSE <<>>)
    \o (IF "style" \in DOMAIN all_issues /\ all_issues["style"] >= 20
        THEN <<"3. Set up automated code formatting">> ELSE <<>>)
    \o (IF "complexity" \in DOMAIN all_issues
        THEN <<"4. Refactor complex functions">> ELSE <<>>)
    \o <<"5. Set up continuous quality monitoring">>

\* _generate_recommendations
generate_recommendations(all_issues, repo_quality) ==
    (IF "security" \in DOMAIN all_issues
     THEN <<"1. Address security vulnerabilities immediately">> ELSE <<>>)
    \o (IF RatLess(repo_quality, Rat(6, 1))
        THEN <<"2. Implement code quality standards and linting">> ELSE <<>>)
    \o (IF "style" \in DOMAIN all_issues /\ all_issues["style"] > 20
        THEN <<"3. Set up automated code formatting">> ELSE <<>>)
    \o (IF "complexity" \in DOMAIN all_issues
        THEN <<"4. Refactor complex functions">> ELSE <<>>)
    \o <<"5. Set up continuous quality monitoring">>

\* a variant that keeps the first entry of a category
AnalysisByCategoryFirst(chunk_results) ==
    [c \in {chunk_results[i].chunk_info.category : i \in 1..Len(chunk_results)} |->
        LET first == CHOOSE i \in 1..Len(chunk_results) :
                        /\ chunk_results[i].chunk_info.category = c
                        /\ \A j \in 1..Len(chunk_results) :
                              chunk_results[j].chunk_info.category = c => i <= j
        IN  chunk_results[first].analysis.summary]

\* the dict comprehension of analysis_by_category: a later entry of the
\* same category replaces the earlier one
AnalysisByCategory(chunk_results) ==
    [c \in {chunk_results[i].chunk_info.category : i \in 1..Len(chunk_results)} |->
        LET last == CHOOSE i \in 1..Len(chunk_results) :
                       /\ chunk_results[i].chunk_info.category = c
                       /\ \A j \in 1..Len(chunk_results) :
                             chunk_results[j].chunk_info.category = c => j <= i
        IN  chunk_results[last].analysis.summary]

synthesize_results(summary, chunk_results) ==
    LET all_issues == AllIssues(chunk_results, 1, EmptyDict)
        repo_quality == RepoQuality(QualityScores(chunk_results, 1))
    IN  [returned |-> TRUE,
         repository_summary |->
             [total_files |-> summary.total_files,
              languages |-> AllLanguages(chunk_results, 1),
              overall_quality |-> repo_quality],
         analysis_by_category |-> AnalysisByCategory(chunk_results),
         issue_summary |-> all_issues,
         insights |-> generate_insights(chunk_results, repo_quality, all_issues),
         recommendations |-> generate_recommendations(all_issues, repo_quality),
         chunk_details |-> chunk_results]

\* step 4: _synthesize_results, and the return
Synthesize ==
    /\ pc = "synthesize"
    /\ final_analysis' = synthesize_results(repo_summary, results)
    /\ pc' = "done"
    /\ UNCHANGED <<manager, repo, config, builder, executor, raised>>

(***************************************************************************)
(* core/approval.py, ApprovalManager.  The approval store is the file      *)
(* pending_approvals.json: absent, holding what json.load cannot parse, or *)
(* holding the list of saved requests.  A saved request is a dict.         *)
(***************************************************************************)
AbsentStore == [state |-> "absent", approvals |-> <<>>]
CorruptStore == [state |-> "corrupt", approvals |-> <<>>]
ListStore(approvals) == [state |-> "list", approvals |-> approvals]

\* the characters str.strip() removes
Whitespace == {" "}

RECURSIVE lstrip(_)
lstrip(s) == IF s # <<>> /\ Head(s) \in Whitespace THEN lstrip(Tail(s)) ELSE s

RECURSIVE rstrip(_)
rstrip(s) ==
    IF s # <<>> /\ s[Len(s)] \in Whitespace
    THEN rstrip(SubSeq(s, 1, Len(s) - 1))
    ELSE s

\* str.strip()
strip(s) == rstrip(lstrip(s))

\* the answers request_pr_approval knows
AnswersYes == {<<"y">>, <<"y", "e", "s">>}
AnswersNo == {<<"n">>, <<"n", "o">>}
AnswersDetails == {<<"d">>, <<"d", "e", "t", "a", "i", "l", "s">>}
AnswersSave == {<<"s">>, <<"s", "a", "v", "e">>}

\* _save_for_later: approval_data; the id is made of the time to the second
approval_data(request, now) ==
    [id |-> now, file_path |-> request.file_path, fixes |-> request.fixes,
     analysis |-> request.analysis, timestamp |-> now, status |-> "pending"]

\* a value json.dump has no encoding for, such as a Path
NotSerializable == "object"

\* json.dump can encode the saved request
Serializable(data) ==
    /\ \A i \in 1..Len(data.fixes) : data.fixes[i] # NotSerializable
    /\ data.analysis # NotSerializable

\* _save_for_later: the file after the call.  A file that cannot be parsed
\* makes json.load raise before anything is written.  Otherwise the file is
\* opened for writing, which empties it, and json.dump writes the list; when
\* it meets a value it cannot encode it raises and leaves the beginning of a
\* list in the file.  The handler prints a warning in both cases.
save_for_later(file, request, now) ==
    IF file.state = "corrupt" THEN file
    ELSE IF ~Serializable(approval_data(request, now)) THEN CorruptStore
    ELSE ListStore(Append(file.approvals, approval_data(request, now)))

\* how often _save_for_later calls json.dump
save_for_later_dumps(file) == IF file.state = "corrupt" THEN 0 ELSE 1

\* a variant that returns every saved request
list_all_approvals(file) ==
    IF file.state = "absent" THEN [raised |-> FALSE, value |-> <<>>]
    ELSE IF file.state = "corrupt" THEN [raised |-> TRUE, value |-> <<>>]
    ELSE [raised |-> FALSE, value |-> file.approvals]

\* list_pending_approvals: only FileNotFoundError is handled
list_pending_approvals(file) ==
    IF file.state = "absent" THEN [raised |-> FALSE, value |-> <<>>]
    ELSE IF file.state = "corrupt" THEN [raised |-> TRUE, value |-> <<>>]
    ELSE [raised |-> FALSE,
          value |-> SelectSeq(file.approvals, LAMBDA a : a.status = "pending")]

\* approval["status"] = "approved"; approval["approved_at"] = now
Approved(approval, now) ==
    [k \in DOMAIN approval \cup {"approved_at"} |->
        IF k = "status" THEN "approved"
        ELSE IF k = "approved_at" THEN now
        ELSE approval[k]]

\* the positions of the saved requests with the id
WithId(approvals, approval_id) ==
    {i \in 1..Len(approvals) : approvals[i].id = approval_id}

\* approve_saved_request: the loop returns at the first saved request with
\* the id; every exception of reading the file makes the result False
approve_saved_request(file, approval_id, now) ==
    IF file.state = "list" /\ WithId(file.approvals, approval_id) # {}
    THEN LET first == CHOOSE i \in WithId(file.approvals, approval_id) :
                          \A j \in WithId(file.approvals, approval_id) : i <= j
         IN  [result |-> TRUE, dumps |-> 1,
              file |-> ListStore([file.approvals EXCEPT
                                     ![first] = Approved(@, now)])]
    ELSE [result |-> FALSE, dumps |-> 0, file |-> file]

\* no call of request_pr_approval is in progress or was the last call
NoPrompt == [state |-> "idle"]

\* request_pr_approval was called: it is at input(), nothing answered yet
Asking(request, file) ==
    [state |-> "asking", request |-> request, responses |-> <<>>,
     interrupted |-> FALSE, result |-> FALSE, dumps |-> 0, before |-> file]

NoCall == [op |-> "none"]

\* seconds the clock can show
MaxClock == 2

\* saved requests the store can hold
MaxStored == 2

\* answers given to one request
MaxResponses == 3

\* time passes
Tick ==
    /\ clock < MaxClock
    /\ clock' = clock + 1
    /\ UNCHANGED <<pipeline, store, prompt, last_call>>

\* request_pr_approval is called and prints the request, up to the loop
RequestPrApproval(request) ==
    /\ prompt.state # "asking"
    /\ prompt' = Asking(request, store)
    /\ last_call' = NoCall
    /\ UNCHANGED <<pipeline, store, clock>>

\* one pass of the loop `while True`: input() answers raw
Respond(raw) ==
    /\ prompt.state = "asking"
    /\ Len(prompt.responses) < MaxResponses
    /\ LET response == strip(lower(raw))
           answered == [prompt EXCEPT !.responses = Append(@, raw)]
       IN  IF response \in AnswersYes
           THEN /\ prompt' = [answered EXCEPT !.state = "returned", !.result = TRUE]
                /\ UNCHANGED store
           ELSE IF response \in AnswersNo
           THEN /\ prompt' = [answered EXCEPT !.state = "returned", !.result = FALSE]
                /\ UNCHANGED store
           ELSE IF response \in AnswersDetails
           THEN /\ prompt' = answered
                /\ UNCHANGED store
           ELSE IF response \in AnswersSave
           THEN /\ Len(store.approvals) < MaxStored
                /\ store' = save_for_later(store, prompt.request, clock)
                /\ prompt' = [answered EXCEPT !.state = "returned", !.result = FALSE,
                                              !.dumps = @ + save_for_later_dumps(store)]
           ELSE /\ prompt' = answered
                /\ UNCHANGED store
    /\ UNCHANGED <<pipeline, clock, last_call>>

\* input() raises KeyboardInterrupt
Interrupt ==
    /\ prompt.state = "asking"
    /\ prompt' = [prompt EXCEPT !.state = "returned", !.result = FALSE,
                                !.interrupted = TRUE]
    /\ UNCHANGED <<pipeline, store, clock, last_call>>

ListPendingApprovals ==
    /\ prompt.state # "asking"
    /\ last_call' = [op |-> "list_pending_approvals",
                     outcome |-> list_pending_approvals(store), before |-> store]
    /\ prompt' = NoPrompt
    /\ UNCHANGED <<pipeline, store, clock>>

ApproveSavedRequest(approval_id) ==
    /\ prompt.state # "asking"
    /\ LET outcome == approve_saved_request(store, approval_id, clock)
       IN  /\ store' = outcome.file
           /\ last_call' = [op |-> "approve_saved_request", approval_id |-> approval_id,
                            result |-> outcome.result, dumps |-> outcome.dumps,
                            before |-> store]
    /\ prompt' = NoPrompt
    /\ UNCHANGED <<pipeline, clock>>

\* the specifications of the analyzer leave the approval manager out
ApprovalNotModelled ==
    /\ store = AbsentStore
    /\ clock = 0
    /\ prompt = NoPrompt
    /\ last_call = NoCall

(***************************************************************************)
(* The chunk builder on its own: any budgets, any inventory, any sizes.    *)
(***************************************************************************)
\* the specifications that draw the result of discovery directly leave the
\* tree out
TreeNotModelled == [root |-> "directory", files |-> <<>>]

InitCommon ==
    /\ pc = "discover"
    /\ file_inventory = EmptyInventory
    /\ st_size = <<>>
    /\ chunks = <<>>
    /\ repo_summary = NoSummary
    /\ submitted = 0
    /\ work_queue = <<>>
    /\ future = <<>>
    /\ worker = [w \in Workers |-> Idle]
    /\ yielded = {}
    /\ results = <<>>
    /\ calls = <<>>
    /\ submit_log = <<>>
    /\ raised = FALSE
    /\ final_analysis = NoAnalysis

InitChunk ==
    /\ ApprovalNotModelled
    /\ repo = TreeNotModelled
    /\ max_chunk_size \in 0..MaxBudget
    /\ max_files_per_chunk \in 1..MaxFileBudget
    /\ InitCommon

AllRanks == 1..Len(priority_order)

NextChunk ==
    \/ DiscoverFiles(MaxFiles, AllRanks)
    \/ CreateRepoSummary
    \/ CreateChunks(0..MaxSize \cup {OSError})

SpecChunk == InitChunk /\ [][NextChunk]_vars

(***************************************************************************)
(* The whole pipeline, with a small repository.                            *)
(***************************************************************************)
\* files the pipeline run discovers
PipelineFiles == 4

\* the categories the pipeline run's files fall in: core and docs
PipelineRanks == {1, 4}

\* what analyze_file does in the pipeline run
PipelineOutcomes ==
    {Returns(CHOOSE r \in AnalyzerResults : r.quality_score = 4),
     Returns(MalformedResult), Raises("AnalysisError")}

\* one file per chunk, or as many as the largest file-count budget
Init ==
    /\ ApprovalNotModelled
    /\ repo = TreeNotModelled
    /\ max_chunk_size = MaxBudget
    /\ max_files_per_chunk \in {1, MaxFileBudget}
    /\ InitCommon

MainThread ==
    \/ DiscoverFiles(PipelineFiles, PipelineRanks)
    \/ CreateRepoSummary
    \/ CreateChunks({1})
    \/ SortChunks
    \/ Submit
    \/ SubmitDone
    \/ Collect
    \/ CollectDone
    \/ Synthesize

WorkerThread(w) ==
    \/ TakeChunk(w)
    \/ AnalyzeFile(w, PipelineOutcomes)
    \/ FinishChunk(w)

Next == MainThread \/ \E w \in Workers : WorkerThread(w)

Spec == Init /\ [][Next]_vars

\* every thread that can take a step eventually takes one; every call of the
\* analyzer terminates
FairSpec ==
    /\ Spec
    /\ WF_vars(MainThread)
    /\ \A w \in Workers : WF_vars(WorkerThread(w))

\* files of the runs where a call of the analyzer may hang
HangFiles == 3

\* what the calls of analyze_file that end do in those runs
HangOutcomes ==
    {Returns(CHOOSE r \in AnalyzerResults : r.quality_score = 4),
     Raises("AnalysisError")}

MainThreadHang ==
    \/ DiscoverFiles(HangFiles, PipelineRanks)
    \/ CreateRepoSummary
    \/ CreateChunks({1})
    \/ SortChunks
    \/ Submit
    \/ SubmitDone
    \/ Collect
    \/ CollectDone
    \/ Synthesize

WorkerThreadHang(w) ==
    \/ TakeChunk(w)
    \/ AnalyzeFile(w, HangOutcomes)
    \/ FinishChunk(w)

\* the pipeline where one call of the analyzer may hang
NextHang ==
    \/ MainThreadHang
    \/ \E w \in Workers : WorkerThreadHang(w)
    \/ \E w \in Workers : AnalyzeFileHangs(w)

SpecHang == Init /\ [][NextHang]_vars

\* the calling thread and the pool threads keep running; nothing makes a call hang
FairSpecHang ==
    /\ SpecHang
    /\ WF_vars(MainThreadHang)
    /\ \A w \in Workers : WF_vars(WorkerThreadHang(w))

(***************************************************************************)
(* The synthesizer on its own: any list of chunk results that              *)
(* _analyze_chunk can have produced.                                       *)
(***************************************************************************)
\* chunk results handed to _synthesize_results
MaxSynthChunks == 2
\* files of one such chunk
MaxSynthFiles == 2

SynthCategories == {"core", "tests"}

SynthOutcomes ==
    {Returns(r) : r \in {x \in AnalyzerResults : x.quality_score < 10}}
        \cup {Raises("AnalysisError")}

RankOf(category) == CHOOSE j \in 1..Len(priority_order) : priority_order[j] = category

\* the per-file list _analyze_chunk builds from the analyzer's outcomes
RECURSIVE AnalyzeAll(_, _, _)
AnalyzeAll(outcomes, i, files_so_far) ==
    IF i > Len(outcomes) THEN files_so_far
    ELSE AnalyzeAll(outcomes, i + 1, AfterFile(files_so_far, i, outcomes[i]))

ChunkResultOf(category, outcomes) ==
    LET chunk == RepoChunk([i \in 1..Len(outcomes) |-> i], Len(outcomes),
                           category, RankOf(category))
    IN  [chunk_info |-> chunk,
         analysis |-> ChunkAnalysis(chunk, AnalyzeAll(outcomes, 1, <<>>))]

SynthChunkResults ==
    {ChunkResultOf(c, o) :
        c \in SynthCategories,
        o \in UNION {[1..n -> SynthOutcomes] : n \in 1..MaxSynthFiles}}

\* the files of the chunks behind the results
RECURSIVE FilesIn(_, _)
FilesIn(chunk_results, i) ==
    IF i > Len(chunk_results) THEN 0
    ELSE Len(chunk_results[i].chunk_info.files) + FilesIn(chunk_results, i + 1)

InitSynth ==
    /\ ApprovalNotModelled
    /\ repo = TreeNotModelled
    /\ max_chunk_size = MaxBudget
    /\ max_files_per_chunk = MaxFileBudget
    /\ pc = "synthesize"
    /\ file_inventory = EmptyInventory
    /\ st_size = <<>>
    /\ chunks = <<>>
    /\ results \in UNION {[1..n -> SynthChunkResults] : n \in 0..MaxSynthChunks}
    /\ repo_summary = [total_files |-> FilesIn(results, 1)]
    /\ submitted = 0
    /\ work_queue = <<>>
    /\ future = <<>>
    /\ worker = [w \in Workers |-> Idle]
    /\ yielded = {}
    /\ calls = <<>>
    /\ submit_log = <<>>
    /\ raised = FALSE
    /\ final_analysis = NoAnalysis

NextSynth == Synthesize

SpecSynth == InitSynth /\ [][NextSynth]_vars

(***************************************************************************)
(* The chunk builder with the constructor's default budgets and files of   *)
(* realistic sizes.                                                        *)
(***************************************************************************)
\* __init__: max_chunk_size: int = 50000
DefaultMaxChunkSize == 50000

\* __init__: max_files_per_chunk: int = 20
DefaultMaxFilesPerChunk == 20

\* what stat().st_size answers for the files: sizes below the default byte
\* budget, some pairs of which exceed it, and one size far above it
ScenarioSizes == {6000, 10000, 45000, 2000000}

InitScenario ==
    /\ ApprovalNotModelled
    /\ repo = TreeNotModelled
    /\ max_chunk_size = DefaultMaxChunkSize
    /\ max_files_per_chunk \in {MaxFileBudget, DefaultMaxFilesPerChunk}
    /\ InitCommon

NextScenario ==
    \/ DiscoverFiles(MaxFiles, AllRanks)
    \/ CreateRepoSummary
    \/ CreateChunks(ScenarioSizes)

SpecScenario == InitScenario /\ [][NextScenario]_vars

(***************************************************************************)
(* Discovery on a tree, and the calling thread's way through the pipeline  *)
(* up to the submit loop; a run that builds no chunk goes on to the end.   *)
(***************************************************************************)
\* files below the root
MaxTreeFiles == 2

TreePaths ==
    {<<<<"m", "a", "i", "n", ".", "p", "y">>>>,
     <<<<"s", "r", "c">>, <<"a", "p", "p", ".", "J", "S">>>>,
     <<<<"t", "e", "s", "t", "s">>, <<"u", "t", "i", "l", ".", "p", "y">>>>,
     <<<<"t", "e", "s", "t", "_", "m", "a", "i", "n", ".", "p", "y">>>>,
     <<<<"D", "o", "c", "k", "e", "r", "f", "i", "l", "e">>>>,
     <<<<"c", "o", "n", "f", "i", "g", ".", "y", "m", "l">>>>,
     <<<<"R", "E", "A", "D", "M", "E", ".", "m", "d">>>>,
     <<<<"M", "a", "k", "e", "f", "i", "l", "e">>>>,
     <<<<"n", "o", "t", "e", "s">>>>,
     <<<<"l", "o", "g", "o", ".", "p", "n", "g">>>>,
     <<<<"n", "o", "d", "e", "_", "m", "o", "d", "u", "l", "e", "s">>, <<"i", "n", "d", "e", "x", ".", "j", "s">>>>,
     <<<<".", "e", "n", "v">>>>}

\* what stat() answers in _should_skip_file: the largest size kept, the
\* smallest size skipped, or OSError
StatOutcomes == {1024 * 1024, 1024 * 1024 + 1, OSError}

TreeFiles == [path : TreePaths, stat : StatOutcomes]

\* the files of a directory tree, in the order os.walk comes to them; a path
\* names one file
Trees ==
    {files \in UNION {[1..n -> TreeFiles] : n \in 0..MaxTreeFiles} :
        \A i \in 1..Len(files) : \A j \in 1..Len(files) :
            i # j => files[i].path # files[j].path}

\* what repo_path names: a directory that can be listed, nothing, or a
\* directory that cannot be listed
RootStates == {"directory", "missing", "unreadable"}

InitDiscover ==
    /\ ApprovalNotModelled
    /\ repo \in {[root |-> "directory", files |-> files] : files \in Trees}
            \cup {[root |-> r, files |-> <<>>] : r \in RootStates \ {"directory"}}
    /\ max_chunk_size = DefaultMaxChunkSize
    /\ max_files_per_chunk = DefaultMaxFilesPerChunk
    /\ InitCommon

NextDiscover ==
    \/ DiscoverRepo
    \/ CreateRepoSummary
    \/ CreateChunks({1})
    \/ SortChunks
    \/ SubmitDone
    \/ CollectDone
    \/ Synthesize

SpecDiscover == InitDiscover /\ [][NextDiscover]_vars

(***************************************************************************)
(* The synthesizer on chunk results with many issues: histograms on both   *)
(* sides of the recommendation thresholds.                                 *)
(***************************************************************************)
\* chunk results handed to _synthesize_results
MaxRecommendChunks == 2

RECURSIVE Repeat(_, _)
Repeat(issue, n) == IF n = 0 THEN <<>> ELSE <<issue>> \o Repeat(issue, n - 1)

\* issue lists of one file: no, 10 or 11 style issues, with or without a
\* security issue and a complexity issue
ManyIssues ==
    {Repeat(IssueStyle, n) \o sec \o cx :
        n \in {0, 10, 11},
        sec \in {<<>>, <<IssueSecurity>>},
        cx \in {<<>>, <<IssueComplexity>>}}

\* the analyzer's results behind them, scored below, at and above 6
RecommendOutcomes ==
    {Returns([quality_score |-> q, issues |-> issues, language |-> "python"]) :
        q \in {5, 6, 7}, issues \in ManyIssues}

RecommendChunkResults == {ChunkResultOf("core", <<o>>) : o \in RecommendOutcomes}

InitRecommend ==
    /\ ApprovalNotModelled
    /\ repo = TreeNotModelled
    /\ max_chunk_size = MaxBudget
    /\ max_files_per_chunk = MaxFileBudget
    /\ pc = "synthesize"
    /\ file_inventory = EmptyInventory
    /\ st_size = <<>>
    /\ chunks = <<>>
    /\ results \in UNION {[1..n -> RecommendChunkResults] : n \in 0..MaxRecommendChunks}
    /\ repo_summary = [total_files |-> FilesIn(results, 1)]
    /\ submitted = 0
    /\ work_queue = <<>>
    /\ future = <<>>
    /\ worker = [w \in Workers |-> Idle]
    /\ yielded = {}
    /\ calls = <<>>
    /\ submit_log = <<>>
    /\ raised = FALSE
    /\ final_analysis = NoAnalysis

NextRecommend == Synthesize

SpecRecommend == InitRecommend /\ [][NextRecommend]_vars

(***************************************************************************)
(* The approval manager: any sequence of its calls, on a store that is     *)
(* absent or unreadable at the start.                                      *)
(***************************************************************************)
(***************************************************************************)
(* The synthesizer on chunk results in every order as_completed can yield  *)
(* them, with averages that are no binary fractions.                       *)
(***************************************************************************)
\* chunk results handed to _synthesize_results
MaxOrderChunks == 3

\* the quality scores of the files of a chunk
OrderScores == {<<3, 5, 5>>, <<9, 10, 10>>, <<10>>}

OrderOutcome(score) ==
    Returns([quality_score |-> score,
             issues |-> IF score < 10 THEN <<IssueStyle>> ELSE <<>>,
             language |-> IF score > 4 THEN "python" ELSE ""])

OrderChunkResults ==
    {ChunkResultOf(c, [i \in 1..Len(scores) |-> OrderOutcome(scores[i])]) :
        c \in SynthCategories, scores \in OrderScores}

InitOrder ==
    /\ ApprovalNotModelled
    /\ repo = TreeNotModelled
    /\ max_chunk_size = MaxBudget
    /\ max_files_per_chunk = MaxFileBudget
    /\ pc = "synthesize"
    /\ file_inventory = EmptyInventory
    /\ st_size = <<>>
    /\ chunks = <<>>
    /\ results \in UNION {[1..n -> OrderChunkResults] : n \in 0..MaxOrderChunks}
    /\ repo_summary = [total_files |-> FilesIn(results, 1)]
    /\ submitted = 0
    /\ work_queue = <<>>
    /\ future = <<>>
    /\ worker = [w \in Workers |-> Idle]
    /\ yielded = {}
    /\ calls = <<>>
    /\ submit_log = <<>>
    /\ raised = FALSE
    /\ final_analysis = NoAnalysis

NextOrder == Synthesize

SpecOrder == InitOrder /\ [][NextOrder]_vars

\* what the user types: the answers in several letter cases, with blanks
\* around them, and answers the prompt does not know
RawResponses ==
    {<<"y">>, <<" ", "Y", "E", "S", " ">>, <<"n">>, <<"N", "o", " ">>, <<"d">>, <<"D", "e", "t", "a", "i", "l", "s">>, <<" ", "s">>, <<"S", "A", "V", "E">>, <<"m", "a", "y", "b", "e">>}

\* the requests put to the user
Requests ==
    {[file_path |-> "app.py", fixes |-> <<"fix">>, analysis |-> "analysis"],
     [file_path |-> "lib.py", fixes |-> <<"fix", NotSerializable>>,
      analysis |-> "analysis"]}

InitApproval ==
    /\ repo = TreeNotModelled
    /\ max_chunk_size = DefaultMaxChunkSize
    /\ max_files_per_chunk = DefaultMaxFilesPerChunk
    /\ InitCommon
    /\ store \in {AbsentStore, CorruptStore}
    /\ clock = 0
    /\ prompt = NoPrompt
    /\ last_call = NoCall

NextApproval ==
    \/ Tick
    \/ \E request \in Requests : RequestPrApproval(request)
    \/ \E raw \in RawResponses : Respond(raw)
    \/ Interrupt
    \/ ListPendingApprovals
    \/ \E approval_id \in 0..MaxClock : ApproveSavedRequest(approval_id)

SpecApproval == InitApproval /\ [][NextApproval]_vars

(***************************************************************************)
(* Properties.                                                             *)
(***************************************************************************)
Built == pc \notin {"discover", "summary", "chunk"}

\* C1: every chunk the builder emits, other than a one-file chunk whose
\* file alone is larger than the byte budget, has size_bytes within the byte
\* budget and holds at most the file-count budget of files.
ChunkSizeInvariant ==
    \A k \in 1..Len(chunks) :
        \/ /\ Len(chunks[k].files) = 1
           /\ st_size[chunks[k].files[1]] > max_chunk_size
        \/ /\ chunks[k].size_bytes <= max_chunk_size
           /\ Len(chunks[k].files) <= max_files_per_chunk

\* the builder has emitted an oversized one-file chunk, a chunk closed by
\* the file-count budget and a chunk that fills the byte budget exactly
ChunkSizeWitness ==
    /\ Built
    /\ \E k \in 1..Len(chunks) :
          Len(chunks[k].files) = 1 /\ chunks[k].size_bytes > max_chunk_size
    /\ \E k \in 1..Len(chunks) :
          Len(chunks[k].files) = max_files_per_chunk /\ Len(chunks[k].files) > 1
    /\ \E k \in 1..Len(chunks) :
          chunks[k].size_bytes = max_chunk_size /\ max_chunk_size > 0

RECURSIVE ChunkFilesOf(_, _, _)
ChunkFilesOf(list, category, k) ==
    IF k > Len(list) THEN <<>>
    ELSE (IF list[k].category = category THEN list[k].files ELSE <<>>)
         \o ChunkFilesOf(list, category, k + 1)

\* C2: for every category the files of its chunks, taken together, are
\* exactly the files of the category's inventory list, each once.
ChunkCoverage ==
    Built => \A c \in Categories : ChunkFilesOf(chunks, c, 1) = file_inventory[c]

Succeeded(log) == SelectSeq(log, LAMBDA e : e.outcome.raises = "none")

EntriesOf(log) ==
    [k \in 1..Len(log) |->
        [path |-> log[k].path, quality_score |-> log[k].outcome.result.quality_score,
         issues |-> log[k].outcome.result.issues,
         language |-> log[k].outcome.result.language]]

\* C3: in _analyze_chunk the files are analyzed in chunk order whatever
\* fails, the per-file list holds exactly the files whose analysis returned,
\* in chunk order, and the analyzer's failure never becomes the chunk's.
PartialFailureIsolation ==
    /\ \A c \in DOMAIN future :
          /\ \A k \in 1..Len(calls[c]) : calls[c][k].path = chunks[c].files[k]
          /\ future[c].exception # "AnalysisError"
          /\ future[c].exception # "none" =>
                \E k \in 1..Len(calls[c]) :
                    calls[c][k].outcome = Returns(MalformedResult)
          /\ future[c].state = "FINISHED" => Len(calls[c]) = Len(chunks[c].files)
          /\ future[c].state = "FINISHED" /\ future[c].exception = "none" =>
                future[c].result.files = EntriesOf(Succeeded(calls[c]))
    /\ \A w \in Workers :
          worker[w].chunk # 0 =>
              /\ Len(calls[worker[w].chunk]) = worker[w].i - 1
              /\ worker[w].files = EntriesOf(Succeeded(calls[worker[w].chunk]))

\* a chunk of two files has returned although the analysis of its first
\* file failed: its per-file list holds the second file alone
PartialFailureWitness ==
    \E c \in DOMAIN future :
        /\ future[c].state = "FINISHED"
        /\ future[c].exception = "none"
        /\ Len(chunks[c].files) = 2
        /\ calls[c][1].outcome.raises = "AnalysisError"
        /\ Len(future[c].result.files) = 1
        /\ future[c].result.files[1].path = chunks[c].files[2]

EntriesFor(list, chunk) == {k \in 1..Len(list) : list[k].chunk_info = chunk}

Returned == {c \in DOMAIN future :
                future[c].state = "FINISHED" /\ future[c].exception = "none"}

\* C4: the result list holds exactly one entry for every collected chunk
\* whose worker returned, none for a chunk whose worker raised, and nothing
\* else; after the collection every chunk has been collected.
PoolFailureIsolation ==
    /\ \A c \in DOMAIN future :
          /\ Cardinality(EntriesFor(results, chunks[c])) =
                 IF c \in yielded /\ c \in Returned THEN 1 ELSE 0
          /\ \A k \in EntriesFor(results, chunks[c]) :
                 results[k].analysis = future[c].result
    /\ Len(results) = Cardinality(yielded \cap Returned)
    /\ pc \in {"synthesize", "done"} => yielded = 1..Len(chunks)

\* the collection is over: of three or more chunks one worker raised and
\* two returned
PoolFailureWitness ==
    /\ pc = "synthesize"
    /\ Len(results) = 2
    /\ \E c \in DOMAIN future : future[c].exception = "TypeError"
    /\ Len(chunks) > 2

\* C5: analyze_repository returns a FinalAnalysis whatever fails in the
\* files and chunks, and no such failure reaches its caller.
AlwaysReturns ==
    /\ <>(pc = "done" /\ final_analysis.returned)
    /\ [](~raised /\ pc # "raised")

\* analyze_repository has returned after a file's analysis failed and a
\* chunk's worker raised
AlwaysReturnsWitness ==
    /\ pc = "done"
    /\ final_analysis.returned
    /\ \E c \in DOMAIN future : future[c].exception = "TypeError"
    /\ \E c \in DOMAIN future : \E k \in 1..Len(calls[c]) :
          calls[c][k].outcome.raises = "AnalysisError"

\* C6: the chunks are submitted in non-decreasing rank order, so no docs
\* chunk is submitted before a core chunk.
SubmissionOrder ==
    \A i \in 1..Len(submit_log) : \A j \in 1..Len(submit_log) :
        i < j =>
            /\ submit_log[i].priority <= submit_log[j].priority
            /\ ~(submit_log[i].category = "docs" /\ submit_log[j].category = "core")

\* core chunks and docs chunks have all been submitted
SubmissionOrderWitness ==
    /\ Len(submit_log) >= 3
    /\ Len(submit_log) = Len(chunks)
    /\ \E i \in 1..Len(submit_log) : submit_log[i].category = "core"
    /\ \E i \in 1..Len(submit_log) : submit_log[i].category = "docs"

RunningChunks == {c \in DOMAIN future : future[c].state = "RUNNING"}

\* C7: at most three chunks are being analyzed at any moment; every chunk
\* being analyzed is held by exactly one worker, which goes through its
\* files one after the other and takes another chunk only when idle again.
WorkerLimit ==
    /\ [](/\ Cardinality(RunningChunks) <= 3
          /\ \A c \in RunningChunks :
                Cardinality({w \in Workers : worker[w].chunk = c}) = 1
          /\ \A w \in Workers :
                worker[w].chunk # 0 =>
                    /\ worker[w].chunk \in RunningChunks
                    /\ worker[w].i \in 1..(Len(chunks[worker[w].chunk].files) + 1)
                    /\ Len(calls[worker[w].chunk]) = worker[w].i - 1)
    /\ [][\A w \in Workers :
             worker[w].chunk # 0 /\ worker'[w].chunk # worker[w].chunk =>
                 /\ worker'[w].chunk = 0
                 /\ future'[worker[w].chunk].state = "FINISHED"]_vars

\* three chunks are being analyzed and a fourth waits in the queue
WorkerLimitWitness ==
    /\ Cardinality(RunningChunks) = 3
    /\ work_queue # <<>>

\* C8: nothing is submitted before discovery and chunk building are over,
\* the inventory and the chunk list do not change once submission started,
\* and synthesis starts only when every submitted chunk has completed or
\* failed.
StageOrder ==
    /\ [](/\ pc \in {"discover", "summary", "chunk", "sort"} =>
                /\ submitted = 0 /\ future = <<>> /\ results = <<>>
                /\ \A w \in Workers : worker[w].chunk = 0
          /\ pc = "discover" => repo_summary = NoSummary /\ chunks = <<>>
          /\ pc \in {"discover", "summary"} => chunks = <<>>
          /\ pc \in {"synthesize", "done"} =>
                /\ submitted = Len(chunks)
                /\ DOMAIN future = 1..Len(chunks)
                /\ \A c \in DOMAIN future : future[c].state = "FINISHED"
                /\ \A w \in Workers : worker[w].chunk = 0
          /\ final_analysis.returned => pc = "done")
    /\ [][submitted > 0 =>
             chunks' = chunks /\ file_inventory' = file_inventory]_vars

\* synthesis is about to start after four chunks were submitted and analyzed
StageOrderWitness ==
    /\ pc = "synthesize"
    /\ submitted = 4
    /\ \A c \in DOMAIN future : future[c].state = "FINISHED"

IssueTypes == {"security", "style", "unknown", "performance", "complexity"}

ChunkCount(chunk_result, issue_type) ==
    LET summary == chunk_result.analysis.summary
    IN  IF DOMAIN summary = {} THEN 0
        ELSE IF issue_type \in DOMAIN summary.issue_summary
             THEN summary.issue_summary[issue_type]
             ELSE 0

RECURSIVE TotalCount(_, _, _)
TotalCount(chunk_results, issue_type, i) ==
    IF i = 0 THEN 0
    ELSE ChunkCount(chunk_results[i], issue_type)
         + TotalCount(chunk_results, issue_type, i - 1)

\* C9: issue_summary maps each issue type to the sum of its counts over all
\* chunk summaries and has no type that no chunk summary has.
IssueSummaryIsSum ==
    pc = "done" =>
        /\ DOMAIN final_analysis.issue_summary \subseteq IssueTypes
        /\ \A t \in IssueTypes :
              /\ t \in DOMAIN final_analysis.issue_summary <=>
                     \E i \in 1..Len(results) : ChunkCount(results[i], t) > 0
              /\ t \in DOMAIN final_analysis.issue_summary =>
                     final_analysis.issue_summary[t] = TotalCount(results, t, Len(results))

\* two chunks both report security issues, one of them style issues too
IssueSummaryWitness ==
    /\ pc = "done"
    /\ Len(results) = 2
    /\ \A i \in 1..2 : ChunkCount(results[i], "security") > 0
    /\ ChunkCount(results[1], "style") > 0
    /\ ChunkCount(results[2], "style") = 0
    /\ final_analysis.issue_summary["security"] >= 2

RECURSIVE Factorial(_)
Factorial(n) == IF n <= 1 THEN 1 ELSE n * Factorial(n - 1)

\* a multiple of every chunk's file count
CommonDen == Factorial(MaxSynthFiles)

Scored(chunk_results) ==
    {i \in 1..Len(chunk_results) : DOMAIN chunk_results[i].analysis.summary # {}}

RECURSIVE ScaledAverages(_, _)
ScaledAverages(chunk_results, i) ==
    IF i = 0 THEN 0
    ELSE (IF i \in Scored(chunk_results)
          THEN LET a == chunk_results[i].analysis.summary.average_quality
               IN  a.num * (CommonDen \div a.den)
          ELSE 0)
         + ScaledAverages(chunk_results, i - 1)

\* C10: overall_quality is the unweighted mean of the average_quality of the
\* chunks with a non-empty summary, and 0 when there is none.
OverallQualityIsMean ==
    pc = "done" =>
        LET q == final_analysis.repository_summary.overall_quality
            n == Cardinality(Scored(results))
        IN  /\ q.den > 0
            /\ IF n = 0
               THEN q.num = 0
               ELSE q.num * n * CommonDen
                        = q.den * ScaledAverages(results, Len(results))

\* two scored chunks of different file counts and different averages
OverallQualityWitness ==
    /\ pc = "done"
    /\ Len(results) = 2
    /\ Scored(results) = {1, 2}
    /\ results[1].analysis.summary.file_count = 1
    /\ results[2].analysis.summary.file_count = 2
    /\ ~RatEq(results[1].analysis.summary.average_quality,
              results[2].analysis.summary.average_quality)

\* the category core holds three files of 10000, 45000 and 6000 bytes, in
\* that order, the budgets are 50000 bytes and 20 files, and the chunks
\* have been built
ThreeFileScenario ==
    /\ Built
    /\ max_chunk_size = DefaultMaxChunkSize
    /\ max_files_per_chunk = DefaultMaxFilesPerChunk
    /\ file_inventory = [EmptyInventory EXCEPT !["core"] = <<1, 2, 3>>]
    /\ st_size = <<10000, 45000, 6000>>

\* C11, as stated: for a category holding three files of 10000, 45000 and
\* 6000 bytes in that order, with byte budget 50000 and file-count budget
\* 20, the builder emits exactly two chunks, [file1] of size 10000 and
\* [file2, file3] of size 51000.
ThreeFileScenarioTwoChunks ==
    ThreeFileScenario =>
        chunks = <<RepoChunk(<<1>>, 10000, "core", 1),
                   RepoChunk(<<2, 3>>, 51000, "core", 1)>>

\* C11, amended: for that category and those budgets the builder emits
\* exactly three one-file chunks, [file1] of size 10000, [file2] of size
\* 45000 and [file3] of size 6000: adding file3 to [file2] would make
\* 51000 bytes, above the byte budget, so file3 starts a chunk of its own.
ThreeFileScenarioThreeChunks ==
    ThreeFileScenario =>
        chunks = <<RepoChunk(<<1>>, 10000, "core", 1),
                   RepoChunk(<<2>>, 45000, "core", 1),
                   RepoChunk(<<3>>, 6000, "core", 1)>>

\* the scenario has been run and file3 was emitted
ThreeFileScenarioWitness ==
    /\ ThreeFileScenario
    /\ \E k \in 1..Len(chunks) : chunks[k].files[Len(chunks[k].files)] = 3

\* the chunks holding file f
ChunksHolding(f) ==
    {k \in 1..Len(chunks) : \E i \in 1..Len(chunks[k].files) : chunks[k].files[i] = f}

\* C12: every file whose size alone exceeds the byte budget is emitted in
\* exactly one chunk, which holds that file and no other and has the file's
\* size; a lone file of 2,000,000 bytes under the 50000-byte budget gives
\* exactly one one-file chunk of size 2,000,000.
OversizedFileAlone ==
    Built =>
        /\ \A f \in DOMAIN st_size :
              st_size[f] > max_chunk_size =>
                  \E k \in 1..Len(chunks) :
                      /\ ChunksHolding(f) = {k}
                      /\ chunks[k].files = <<f>>
                      /\ chunks[k].size_bytes = st_size[f]
        /\ (st_size = <<2000000>> /\ max_chunk_size = 50000) =>
              /\ Len(chunks) = 1
              /\ chunks[1].files = <<1>>
              /\ chunks[1].size_bytes = 2000000

\* a file of 2,000,000 bytes between two small files of its category was
\* emitted alone
OversizedFileWitness ==
    /\ Built
    /\ \E c \in Categories : file_inventory[c] = <<1, 2, 3>>
    /\ st_size = <<10000, 2000000, 6000>>
    /\ \E k \in 1..Len(chunks) : chunks[k].files = <<2>>

\* the fixed ranks of the categories
CategoryRank ==
    [c \in Categories |->
        CASE c = "core" -> 1 [] c = "tests" -> 2 [] c = "config" -> 3
          [] c = "docs" -> 4 [] c = "build" -> 5 [] c = "other" -> 6]

\* C13: no chunk mixes categories: the chunk's category is one of the six,
\* every file of the chunk is in the inventory list of that category, and
\* the chunk's priority is that category's rank (core=1, tests=2, config=3,
\* docs=4, build=5, other=6), whichever categories are empty.
ChunkSingleCategory ==
    \A k \in 1..Len(chunks) :
        /\ chunks[k].category \in Categories
        /\ \A i \in 1..Len(chunks[k].files) :
              \E j \in 1..Len(file_inventory[chunks[k].category]) :
                  file_inventory[chunks[k].category][j] = chunks[k].files[i]
        /\ chunks[k].priority = CategoryRank[chunks[k].category]

\* chunks of two categories were built while a category ranked before them
\* and one ranked between them are empty
ChunkSingleCategoryWitness ==
    /\ Built
    /\ file_inventory["core"] = <<>>
    /\ file_inventory["config"] = <<>>
    /\ \E k \in 1..Len(chunks) : chunks[k].category = "tests"
    /\ \E k \in 1..Len(chunks) :
          chunks[k].category = "docs" /\ Len(chunks[k].files) > 1

Discovered == pc # "discover"

\* where the inventory lists the path: pairs of a category and a position
Occurrences(path_str) ==
    {<<c, i>> \in Categories \X (1..MaxTreeFiles) :
        i <= Len(file_inventory[c]) /\ file_inventory[c][i] = path_str}

\* discovery keeps the file: os.walk comes to it and _should_skip_file
\* answers False
Kept(file) ==
    /\ \E j \in 1..Len(os_walk(repo)) : os_walk(repo)[j] = file
    /\ ~should_skip_file(file)

\* C14: categorization is total and exclusive: the inventory has the six
\* category lists; every file discovery keeps is listed exactly once, in
\* the one list of the category that categorizing its path yields, a file
\* discovery filters out is listed nowhere, and the lists hold nothing else.
CategorizationTotalExclusive ==
    Discovered =>
        /\ DOMAIN file_inventory = {"core", "tests", "config", "docs", "build", "other"}
        /\ \A k \in 1..Len(repo.files) :
              LET file == repo.files[k]
              IN  IF Kept(file)
                  THEN /\ categorize_file(file.path) \in DOMAIN file_inventory
                       /\ Cardinality(Occurrences(PathStr(file.path))) = 1
                       /\ \A o \in Occurrences(PathStr(file.path)) :
                             o[1] = categorize_file(file.path)
                  ELSE Occurrences(PathStr(file.path)) = {}
        /\ TotalFiles(file_inventory, 1) =
              Cardinality({k \in 1..Len(repo.files) : Kept(repo.files[k])})

\* discovery kept two files and filed them under different categories, one
\* of them a file that more than one rule matches
CategorizationWitness ==
    /\ Discovered
    /\ Len(repo.files) = 2
    /\ Len(file_inventory["config"]) = 1
    /\ Len(file_inventory["tests"]) = 1
    /\ \E k \in 1..Len(repo.files) :
          /\ categorize_file(repo.files[k].path) = "config"
          /\ AnyPatternIn(build_patterns, lower(PathStr(repo.files[k].path)))

\* C15: when repo_path names no directory that can be read, the call fails
\* at the start of discovery: no FinalAnalysis is ever returned for a root
\* that is missing or unreadable.
RootFailureNeverReturns ==
    repo.root # "directory" => ~final_analysis.returned

\* C16: analysis_by_category has a key for exactly the categories that have
\* a chunk result, and the value of a category is the summary of the last
\* chunk result of that category in collection order: earlier summaries of
\* the category are overwritten, not merged.
AnalysisByCategoryLastWins ==
    pc = "done" =>
        /\ DOMAIN final_analysis.analysis_by_category =
              {results[i].chunk_info.category : i \in 1..Len(results)}
        /\ \A i \in 1..Len(results) :
              (\A j \in (i + 1)..Len(results) :
                   results[j].chunk_info.category # results[i].chunk_info.category)
              => final_analysis.analysis_by_category[results[i].chunk_info.category]
                     = results[i].analysis.summary

\* two chunk results of one category with different, non-empty summaries
\* were collected, and the view holds the second one's summary
AnalysisByCategoryWitness ==
    /\ pc = "done"
    /\ Len(results) = 2
    /\ results[1].chunk_info.category = results[2].chunk_info.category
    /\ results[1].analysis.summary # results[2].analysis.summary
    /\ results[1].analysis.summary # EmptyDict
    /\ results[2].analysis.summary # EmptyDict
    /\ final_analysis.analysis_by_category[results[2].chunk_info.category]
           = results[2].analysis.summary

\* every call of the analyzer made so far raised
AllFilesFailed ==
    \A c \in 1..Len(calls) :
        \A k \in 1..Len(calls[c]) : calls[c][k].outcome.raises # "none"

\* the chunk results with at least one successfully analyzed file
WithSuccess(chunk_results) ==
    SelectSeq(chunk_results, LAMBDA r : r.analysis.files # <<>>)

\* C17: a chunk result with zero successfully analyzed files has an empty
\* summary and adds nothing to issue_summary or to overall_quality; when the
\* analyzer fails on every file of every chunk, every chunk still has a
\* result entry, each with an empty summary, issue_summary is empty and
\* overall_quality is 0.
AllFailEmptySummaries ==
    /\ \A i \in 1..Len(results) :
          results[i].analysis.files = <<>> => results[i].analysis.summary = EmptyDict
    /\ pc = "done" =>
          /\ final_analysis.issue_summary =
                 AllIssues(WithSuccess(results), 1, EmptyDict)
          /\ final_analysis.repository_summary.overall_quality =
                 RepoQuality(QualityScores(WithSuccess(results), 1))
          /\ AllFilesFailed =>
                 /\ Len(results) = Len(chunks)
                 /\ \A c \in 1..Len(chunks) :
                        \E i \in 1..Len(results) :
                            /\ results[i].chunk_info = chunks[c]
                            /\ results[i].analysis.summary = EmptyDict
                 /\ final_analysis.issue_summary = EmptyDict
                 /\ final_analysis.repository_summary.overall_quality = Rat(0, 1)

\* the run ended after the analyzer failed on every file of three or more
\* chunks
AllFailWitness ==
    /\ pc = "done"
    /\ Len(chunks) >= 3
    /\ \A c \in 1..Len(chunks) : Len(calls[c]) = Len(chunks[c].files)
    /\ AllFilesFailed
    /\ Len(results) = Len(chunks)

\* the insights hold the message
HasInsight(message) ==
    \E k \in 1..Len(final_analysis.insights) : final_analysis.insights[k] = message

\* C18: when discovery finds zero files no chunk is created, and the call
\* returns a FinalAnalysis with total_files = 0 and overall_quality = 0
\* whose insights hold the "needs attention" quality message.
ZeroFilesAnalysis ==
    (Discovered /\ TotalFiles(file_inventory, 1) = 0) =>
        /\ chunks = <<>>
        /\ submitted = 0
        /\ pc = "done" =>
              /\ final_analysis.returned
              /\ final_analysis.repository_summary.total_files = 0
              /\ final_analysis.repository_summary.overall_quality = Rat(0, 1)
              /\ HasInsight("Code quality needs attention")

\* the call returned for a directory whose two files discovery both skipped
ZeroFilesWitness ==
    /\ pc = "done"
    /\ repo.root = "directory"
    /\ Len(repo.files) = 2
    /\ TotalFiles(file_inventory, 1) = 0
    /\ final_analysis.returned

\* C19: the "no test files detected" insight is generated exactly when the
\* chunk results hold no chunk of category tests and at least one of
\* category core; the "low test-to-code ratio" insight exactly when both
\* kinds exist and tests chunks divided by core chunks is below 0.3.
TestInsightsRule ==
    pc = "done" =>
        LET core_chunks == CountCategory(results, "core")
            test_chunks == CountCategory(results, "tests")
        IN  /\ HasInsight("No test files detected") <=>
                   (test_chunks = 0 /\ core_chunks >= 1)
            /\ HasInsight("Low test-to-code ratio") <=>
                   (test_chunks >= 1 /\ core_chunks >= 1
                    /\ 10 * test_chunks < 3 * core_chunks)

\* the positions of a recommendation in the returned list
Positions(message) ==
    {i \in 1..Len(final_analysis.recommendations) :
        final_analysis.recommendations[i] = message}

\* the four conditional recommendations, in rule order
RuleMessages ==
    <<"1. Address security vulnerabilities immediately",
      "2. Implement code quality standards and linting",
      "3. Set up automated code formatting",
      "4. Refactor complex functions">>

\* the condition of rule k on the global histogram and the overall quality
RuleHolds(k) ==
    LET all_issues == final_analysis.issue_summary
        overall_quality == final_analysis.repository_summary.overall_quality
    IN  CASE k = 1 -> "security" \in DOMAIN all_issues
          [] k = 2 -> overall_quality.num < 6 * overall_quality.den
          [] k = 3 -> "style" \in DOMAIN all_issues /\ all_issues["style"] > 20
          [] k = 4 -> "complexity" \in DOMAIN all_issues

\* C20: the recommendations are never empty and end with the monitoring
\* recommendation, which occurs nowhere else; before it the security
\* recommendation is present iff the histogram has a security type, the
\* quality one iff overall_quality < 6, the formatting one iff the style
\* count is above 20, the refactoring one iff it has a complexity type;
\* each at most once, in that rule order, and nothing else is in the list.
RecommendationRules ==
    pc = "done" =>
        LET recommendations == final_analysis.recommendations
        IN  /\ Len(recommendations) >= 1
            /\ Positions("5. Set up continuous quality monitoring") =
                   {Len(recommendations)}
            /\ \A k \in 1..4 :
                   Cardinality(Positions(RuleMessages[k])) =
                       IF RuleHolds(k) THEN 1 ELSE 0
            /\ \A k \in 1..4 : \A l \in 1..4 :
                   k < l => \A i \in Positions(RuleMessages[k]) :
                                \A j \in Positions(RuleMessages[l]) : i < j
            /\ \A i \in 1..(Len(recommendations) - 1) :
                   \E k \in 1..4 : recommendations[i] = RuleMessages[k]

\* two chunks with 10 style issues each make a histogram of exactly 20:
\* security and complexity are recommended, formatting is not
RecommendationWitness ==
    /\ pc = "done"
    /\ Len(results) = 2
    /\ "style" \in DOMAIN final_analysis.issue_summary
    /\ final_analysis.issue_summary["style"] = 20
    /\ final_analysis.recommendations =
           <<"1. Address security vulnerabilities immediately",
             "4. Refactor complex functions",
             "5. Set up continuous quality monitoring">>

\* the configuration markers, letter case set aside
ConfigMarkers == {lower(config_patterns[k]) : k \in 1..Len(config_patterns)}

\* C21: every file discovery keeps whose path, letter case set aside, does
\* not contain "test" and contains a configuration marker (config,
\* settings, .env, requirements, package.json, dockerfile) is listed under
\* config, whatever documentation, build or source-code rule it also matches.
ConfigMarkerWins ==
    Discovered =>
        \A k \in 1..Len(repo.files) :
            LET file == repo.files[k]
                path_str == lower(PathStr(file.path))
            IN  (/\ Kept(file)
                 /\ ~Contains(<<"t", "e", "s", "t">>, path_str)
                 /\ \E marker \in ConfigMarkers : Contains(marker, path_str))
                => \E i \in 1..Len(file_inventory["config"]) :
                       file_inventory["config"][i] = PathStr(file.path)

\* the answer, trimmed and lower-cased, is y/yes, n/no or s/save
Decisive(raw) == strip(lower(raw)) \in AnswersYes \cup AnswersNo \cup AnswersSave

\* the store holds what it held when the request was made and then the
\* request, pending
PersistedOnce ==
    /\ store.state = "list"
    /\ Len(store.approvals) = Len(prompt.before.approvals) + 1
    /\ SubSeq(store.approvals, 1, Len(prompt.before.approvals)) = prompt.before.approvals
    /\ LET saved == store.approvals[Len(store.approvals)]
       IN  /\ saved.file_path = prompt.request.file_path
           /\ saved.fixes = prompt.request.fixes
           /\ saved.analysis = prompt.request.analysis
           /\ saved.status = "pending"
    /\ prompt.dumps = 1

\* C22: request_pr_approval goes on asking while no answer is decisive and
\* returns at the first decisive answer (trimmed, lower-cased): True for
\* y/yes, False for n/no and for s/save; a d/details or unknown answer
\* changes neither; the request is persisted exactly once when the decisive
\* answer is s/save, and the store is left alone otherwise.
FirstDecisiveResponse ==
    prompt.state \in {"asking", "returned"} =>
        LET responses == prompt.responses
            decisive == {i \in 1..Len(responses) : Decisive(responses[i])}
            last == strip(lower(responses[Len(responses)]))
        IN  /\ prompt.state = "asking" => decisive = {}
            /\ (prompt.state = "returned" /\ ~prompt.interrupted) =>
                  /\ decisive = {Len(responses)}
                  /\ prompt.result = (last \in AnswersYes)
            /\ IF decisive # {} /\ last \in AnswersSave
               THEN PersistedOnce
               ELSE store = prompt.before /\ prompt.dumps = 0

\* the store holds a saved request with the id
Holds(file, approval_id) ==
    /\ file.state = "list"
    /\ \E i \in 1..Len(file.approvals) : file.approvals[i].id = approval_id

\* C23: approve_saved_request returns True and writes the store once when
\* the store holds a saved request with the id, and returns False without
\* writing when none has the id or the store cannot be read;
\* list_pending_approvals returns the saved requests whose status is pending
\* and the empty list when the store does not exist
ApproveAndListOutcomes ==
    /\ last_call.op = "approve_saved_request" =>
          IF Holds(last_call.before, last_call.approval_id)
          THEN last_call.result = TRUE /\ last_call.dumps = 1
          ELSE /\ last_call.result = FALSE
               /\ last_call.dumps = 0
               /\ store = last_call.before
    /\ last_call.op = "list_pending_approvals" =>
          /\ last_call.before.state = "absent" =>
                ~last_call.outcome.raised /\ last_call.outcome.value = <<>>
          /\ last_call.before.state = "list" =>
                /\ ~last_call.outcome.raised
                /\ last_call.outcome.value =
                       SelectSeq(last_call.before.approvals,
                                 LAMBDA a : a.status = "pending")

\* the list was asked for while the store held a pending and an approved request
ApproveAndListWitness ==
    /\ last_call.op = "list_pending_approvals"
    /\ Len(last_call.outcome.value) = 1
    /\ Len(last_call.before.approvals) = 2

\* the chunk's future has left PENDING: a worker has taken the chunk
Begun(c) == c \in DOMAIN future /\ future[c].state # "PENDING"

StalledAlone(w) ==
    /\ Hung(w)
    /\ future[worker[w].chunk].state = "RUNNING"
    /\ \A v \in Workers \ {w} : worker[v] = Idle
    /\ \A c \in 1..Len(chunks) :
          c # worker[w].chunk => c \in DOMAIN future /\ future[c].state = "FINISHED"

\* C25: when one call of the analyzer never returns and all others end, the
\* chunk of that call stays running for ever, neither completed nor failed,
\* and every other chunk is eventually analyzed to completion, leaving that
\* one worker as the only stalled one
HangStallsOneWorker ==
    \A w \in Workers :
        /\ [](Hung(w) => [](Hung(w) /\ future[worker[w].chunk].state = "RUNNING"))
        /\ Hung(w) ~> []StalledAlone(w)

\* a worker hangs in a chunk while two other chunks were analyzed to the end
HangStallsOneWorkerWitness ==
    \E w \in Workers :
        /\ StalledAlone(w)
        /\ Len(chunks) >= 3
        /\ worker[w].chunk = 1

\* the files analyze_file was called on for the chunk, in call order
CalledPaths(c) == [k \in 1..Len(calls[c]) |-> calls[c][k].path]

\* C26: nothing is retried: each chunk is submitted once and run at most
\* once, analyze_file is called once for every file of a chunk that was run,
\* whether the call returns or raises, and a finished chunk is not run again
NoRetry ==
    /\ [](/\ Len(submit_log) <= Len(chunks)
          /\ \A i \in 1..Len(submit_log) : submit_log[i] = chunks[i]
          /\ \A i \in 1..Len(submit_log) : \A j \in 1..Len(submit_log) :
                submit_log[i] = submit_log[j] => i = j
          /\ \A c \in DOMAIN future :
                /\ Len(calls[c]) <= Len(chunks[c].files)
                /\ CalledPaths(c) = SubSeq(chunks[c].files, 1, Len(calls[c]))
                /\ future[c].state = "PENDING" => calls[c] = <<>>
                /\ future[c].state = "FINISHED" =>
                      Len(calls[c]) = Len(chunks[c].files))
    /\ [][\A c \in DOMAIN future :
              /\ future[c].state # "PENDING" => future'[c].state # "PENDING"
              /\ future[c].state = "FINISHED" =>
                    future'[c] = future[c] /\ calls'[c] = calls[c]]_vars

\* a chunk of two files is finished whose first call raised
NoRetryWitness ==
    \E c \in DOMAIN future :
        /\ future[c].state = "FINISHED"
        /\ Len(chunks[c].files) = 2
        /\ Len(calls[c]) = 2
        /\ calls[c][1].outcome.raises = "AnalysisError"
        /\ c \in yielded

\* the chunk results in another order of completion
Reordered(chunk_results, p) ==
    [i \in 1..Len(chunk_results) |-> chunk_results[p[i]]]

\* C27: the aggregate fields do not depend on the order in which the chunks
\* completed: for the same chunk results in any order the issue summary, the
\* overall quality, the set of languages, the insights and the
\* recommendations are the same
CompletionOrderIrrelevant ==
    pc = "done" =>
        \A p \in Permutations(1..Len(results)) :
            LET reordered == Reordered(results, p)
                other == synthesize_results(repo_summary, reordered)
            IN  /\ other.issue_summary = final_analysis.issue_summary
                /\ other.repository_summary.languages
                       = final_analysis.repository_summary.languages
                /\ other.insights = final_analysis.insights
                /\ other.recommendations = final_analysis.recommendations
                /\ float_repo_quality(reordered) = float_repo_quality(results)
                /\ float_quality_messages(float_repo_quality(reordered))
                       = float_quality_messages(float_repo_quality(results))

RECURSIVE HeldBytes(_, _)
HeldBytes(files, i) ==
    IF i > Len(files) THEN 0 ELSE st_size[files[i]] + HeldBytes(files, i + 1)

\* C29: every chunk holds at least one file, its size_bytes is the sum of the
\* sizes of the files it holds, and the files of the successive chunks of a
\* category come in the order of the category's list
ChunksWellFormed ==
    Built =>
        /\ \A k \in 1..Len(chunks) :
              /\ Len(chunks[k].files) >= 1
              /\ \A i \in 1..Len(chunks[k].files) : st_size[chunks[k].files[i]] # OSError
              /\ chunks[k].size_bytes = HeldBytes(chunks[k].files, 1)
        /\ \A category \in DOMAIN file_inventory :
              LET held == ChunkFilesOf(chunks, category, 1)
              IN  held = SelectSeq(file_inventory[category],
                                   LAMBDA f : \E k \in 1..Len(held) : held[k] = f)

\* a category of three files was split into a chunk of two files with bytes
\* and a chunk of one
ChunksWellFormedWitness ==
    /\ Built
    /\ \E k \in 1..(Len(chunks) - 1) :
          /\ chunks[k].category = chunks[k + 1].category
          /\ Len(chunks[k].files) = 2
          /\ chunks[k].size_bytes = 2
          /\ chunks[k + 1].size_bytes > 0

\* the step appends one pending request to the store and changes nothing else
AppendsPending ==
    /\ store.state # "corrupt"
    /\ store'.state = "list"
    /\ Len(store'.approvals) = Len(store.approvals) + 1
    /\ SubSeq(store'.approvals, 1, Len(store.approvals)) = store.approvals
    /\ store'.approvals[Len(store'.approvals)].status = "pending"

\* the step approves the first saved request with some id and changes
\* nothing else, neither in that request nor in the others
ApprovesFirst ==
    /\ store.state = "list"
    /\ store'.state = "list"
    /\ Len(store'.approvals) = Len(store.approvals)
    /\ \E i \in 1..Len(store.approvals) :
          /\ \A j \in 1..(i - 1) : store.approvals[j].id # store.approvals[i].id
          /\ store'.approvals[i].status = "approved"
          /\ \A k \in DOMAIN store.approvals[i] \ {"status", "approved_at"} :
                store'.approvals[i][k] = store.approvals[i][k]
          /\ \A j \in 1..Len(store.approvals) :
                j # i => store'.approvals[j] = store.approvals[j]

\* C30: the stored approvals only grow and only move forward: a step of the
\* manager leaves the store as it is, appends one pending request to it, or
\* approves the first saved request with the id given; no saved request is
\* removed and none goes back from approved to pending
StoreOnlyGrows == [][store' = store \/ AppendsPending \/ ApprovesFirst]_vars

====
